---- MODULE Spec2Model ----
(***************************************************************************)
(* A model of rlox: the single-pass compiler (src/src/compiler.rs), the    *)
(* scanner interface it consumes (src/src/scanner.rs), the chunk format    *)
(* (src/src/bytecode.rs), the virtual machine (src/src/vm.rs), the value   *)
(* representation (src/src/value.rs), the heap and its interning table     *)
(* (src/src/heap.rs, src/src/object.rs) and the open-addressing hash map   *)
(* (src/rlox_common/src/hashmap.rs).                                       *)
(*                                                                         *)
(* Strings (lexemes, string contents, names) are sequences of one-char     *)
(* strings, so that slicing and concatenation are computed.  A source is   *)
(* a sequence of lexical items separated by one blank; the scanner turns   *)
(* each item into the token scan_token would return for it.                *)
(***************************************************************************)
EXTENDS Integers, Sequences, FiniteSets, TLC

VARIABLES
    vm,        \* the Vm struct: chunk, ip, stack, globals, last
    mem,       \* every boxed heap object ever allocated, by address
    HEAP,      \* the compiler's Heap: objects (handles) and strings (interner)
    status,    \* where the last interpret call stands
    returned,  \* what the last interpret call returned
    out,       \* the values Print wrote, in order
    source,    \* the source of the current interpret call
    clog,      \* history: what the compiler resolved and declared in that call
    calls,     \* number of interpret calls made on this Vm
    steps,     \* instructions the current interpret call has executed
    trace,     \* history: the Add, Equal and global instructions executed
    emitter,   \* a CompilerCtx whose jumps are emitted and patched one call at a time
    statics,   \* the statics of vm.rs, what was freed (in order), and the Vms made
    table,     \* a HashMap of its own, with what its callers set, deleted and got
    dis        \* a Disassembler over the chunk of the Vm, and the offsets it visited

vars == <<vm, mem, HEAP, status, returned, out, source, clog, calls, steps, trace, emitter, statics, table, dis>>

-----------------------------------------------------------------------------
(* Bounds of the model.                                                    *)

\* Interpret calls made on one Vm.
MaxCalls == 3

\* Interpret calls made on one Vm when the sources are the additions.
MaxAddCalls == 2

\* The calls of interpret made on the one Vm with the sources of SpecErrors.
MaxErrorCalls == 2

\* Instructions one interpret call may execute before the model stops it
\* (a while loop may run forever).
MaxSteps == 40

\* Statements "true;" of a source long enough for offsets beyond a u16.
LongProgram == 32768

\* Calls that grow the emitter's chunk or mark a loop start.
MaxEmits == 3

\* The values of a u8: what `as u8` keeps of a usize is its rest modulo this.
ByteValues == 256

\* Binary operators of one expression.
MaxOperators == 2

\* Vms made in one process.
MaxVms == 2

\* Strings one Vm interns.
MaxInterned == 2

\* The keys a HashMap has been given before: each was set, then deleted.
MaxKeys == 8

\* The keys a HashMap is given from then on.
MaxDriven == 3

\* The values a HashMap is given.
MaxValues == 2

-----------------------------------------------------------------------------
(* Small helpers.                                                          *)

Min(a, b) == IF a < b THEN a ELSE b

Abs(a) == IF a < 0 THEN -a ELSE a

RECURSIVE Gcd(_, _)
Gcd(a, b) == IF b = 0 THEN a ELSE Gcd(b, a % b)

Last(s) == s[Len(s)]

Front(s) == SubSeq(s, 1, Len(s) - 1)

\* let v be the value in K: a value used more than once is named once.
With(v, K(_)) == K(v)

-----------------------------------------------------------------------------
(* Value (src/src/value.rs).  A Number is an f64; the model keeps it as a  *)
(* fraction n/d in lowest terms with d > 0, and d = 0 for the IEEE         *)
(* specials: 1/0 is +inf, -1/0 is -inf, 0/0 is NaN.                        *)

Nil == [tag |-> "Nil", n |-> 0, d |-> 0]

Boolean(b) == [tag |-> "Boolean", n |-> IF b THEN 1 ELSE 0, d |-> 0]

Sign(a) == IF a > 0 THEN 1 ELSE IF a < 0 THEN -1 ELSE 0

Frac(a, b) ==
    IF b = 0 THEN [tag |-> "Number", n |-> Sign(a), d |-> 0]
    ELSE LET g == Gcd(Abs(a), Abs(b))
             s == IF b < 0 THEN -1 ELSE 1
         IN [tag |-> "Number", n |-> (s * a) \div g, d |-> (s * b) \div g]

Number(k) == Frac(k, 1)

Obj(p) == [tag |-> "Obj", n |-> p, d |-> 0]

is_number(v) == v.tag = "Number"

is_obj(v) == v.tag = "Obj"

is_string(v) == is_obj(v)

\* Nil alone: what is_falsey is not.
is_falseyNilOnly(v) == v.tag = "Nil"

is_falsey(v) == v.tag = "Nil" \/ (v.tag = "Boolean" /\ v.n = 0)

IsNaN(v) == v.tag = "Number" /\ v.d = 0 /\ v.n = 0

IsInf(v) == v.tag = "Number" /\ v.d = 0 /\ v.n # 0

\* impl PartialEq for Value: numbers by IEEE equality, booleans by value,
\* objects by address, anything else by discriminant.
ValueEq(l, r) ==
    IF l.tag = "Number" /\ r.tag = "Number"
    THEN ~IsNaN(l) /\ ~IsNaN(r) /\ l.n = r.n /\ l.d = r.d
    ELSE IF l.tag = "Boolean" /\ r.tag = "Boolean" THEN l.n = r.n
    ELSE IF l.tag = "Obj" /\ r.tag = "Obj" THEN l.n = r.n
    ELSE l.tag = r.tag

\* f64 addition of two Numbers.
NumAdd(l, r) ==
    IF IsNaN(l) \/ IsNaN(r) THEN Frac(0, 0)
    ELSE IF IsInf(l) /\ IsInf(r) THEN (IF l.n = r.n THEN l ELSE Frac(0, 0))
    ELSE IF IsInf(l) THEN l
    ELSE IF IsInf(r) THEN r
    ELSE Frac(l.n * r.d + r.n * l.d, l.d * r.d)

NumNeg(v) == [v EXCEPT !.n = -v.n]

NumSub(l, r) == NumAdd(l, NumNeg(r))

NumMul(l, r) ==
    IF IsNaN(l) \/ IsNaN(r) THEN Frac(0, 0)
    ELSE IF IsInf(l) \/ IsInf(r) THEN Frac(Sign(l.n) * Sign(r.n), 0)
    ELSE Frac(l.n * r.n, l.d * r.d)

NumDiv(l, r) ==
    IF IsNaN(l) \/ IsNaN(r) THEN Frac(0, 0)
    ELSE IF IsInf(l) THEN (IF IsInf(r) THEN Frac(0, 0) ELSE Frac(l.n * (IF r.n < 0 THEN -1 ELSE 1), 0))
    ELSE IF IsInf(r) THEN Frac(0, 1)
    ELSE Frac(l.n * r.d, l.d * r.n)

\* f64 partial_cmp: every comparison with NaN is false.
NumLess(l, r) ==
    IF IsNaN(l) \/ IsNaN(r) THEN FALSE
    ELSE IF IsInf(l) \/ IsInf(r)
         THEN (IF IsInf(l) /\ IsInf(r) THEN l.n < r.n
               ELSE IF IsInf(l) THEN l.n < 0 ELSE r.n > 0)
    ELSE l.n * r.d < r.n * l.d

NumGreater(l, r) == NumLess(r, l)

-----------------------------------------------------------------------------
(* HashMap (src/rlox_common/src/hashmap.rs): open addressing with linear   *)
(* probing and tombstones.  entries is the RawArray of capacity slots.     *)

MAX_LOAD_NUM == 3

MAX_LOAD_DEN == 4

Vacant == [kind |-> "Vacant", key |-> <<>>, value |-> Nil]

Tombstone == [kind |-> "Tombstone", key |-> <<>>, value |-> Nil]

Occupied(k, v) == [kind |-> "Occupied", key |-> k, value |-> v]

HashMap_new == [entries |-> <<>>, len |-> 0]

capacity(m) == Len(m.entries)

is_empty(m) == m.len = 0

\* The alphabet of the model's strings; a character's code is its place.
Alphabet == <<"a", "b", "c", "d", "x", "y", "z", "h", "i", "!", " ", "1", "2", "\"">>

CharCode(c) == CHOOSE i \in 1..Len(Alphabet) : Alphabet[i] = c

\* DefaultHasher over the key's bytes, kept as a deterministic function of
\* the content: equal contents hash alike, different contents may collide.
RECURSIVE hash(_)
hash(key) ==
    IF key = <<>> THEN 7
    ELSE (hash(Front(key)) * 31 + CharCode(Last(key))) % 65536

Hang == -1

\* The probe loop of find_entry_index from `index`, with `tombstone` the
\* first tombstone passed (0: none) and `n` the slots already visited.  A
\* table with no Vacant slot and no entry for the key is probed forever.
RECURSIVE probe(_, _, _, _, _)
probe(entries, key, index, tombstone, n) ==
    IF n >= Len(entries) THEN Hang
    ELSE LET entry == entries[index + 1]
             next == (index + 1) % Len(entries)
         IN CASE entry.kind = "Vacant" ->
                    IF tombstone = 0 THEN index ELSE tombstone - 1
              [] entry.kind = "Tombstone" ->
                    probe(entries, key, next, IF tombstone = 0 THEN index + 1 ELSE tombstone, n + 1)
              [] OTHER ->
                    IF entry.key = key THEN index
                    ELSE probe(entries, key, next, tombstone, n + 1)

find_entry_index(entries, key) ==
    probe(entries, key, hash(key) % Len(entries), 0, 0)

needs_to_grow(m) == m.len + 1 > (capacity(m) * MAX_LOAD_NUM) \div MAX_LOAD_DEN

\* grow's copy loop: re-insert the occupied entries of old[i..] into fresh.
RECURSIVE rehash(_, _, _)
rehash(old, i, fresh) ==
    IF i > Len(old) THEN fresh
    ELSE IF old[i].kind # "Occupied" THEN rehash(old, i + 1, fresh)
    ELSE LET index == find_entry_index(fresh.entries, old[i].key)
         IN rehash(old, i + 1,
                   [entries |-> [fresh.entries EXCEPT ![index + 1] = old[i]],
                    len |-> fresh.len + 1])

InitialCapacity == 8

grow(m) ==
    LET new_capacity == IF capacity(m) = 0 THEN InitialCapacity ELSE capacity(m) * 2
    IN rehash(m.entries, 1, [entries |-> [i \in 1..new_capacity |-> Vacant], len |-> 0])

\* HashMap::set: the map afterwards and the bool it returns (true: the key
\* was not there).  hung: find_entry_index never returned.
set(m, key, value) ==
    With(IF needs_to_grow(m) THEN grow(m) ELSE m, LAMBDA g :
      With(find_entry_index(g.entries, key), LAMBDA index :
        IF index = Hang THEN [map |-> g, ret |-> FALSE, hung |-> TRUE]
        ELSE With([g.entries EXCEPT ![index + 1] = Occupied(key, value)], LAMBDA put :
               CASE g.entries[index + 1].kind = "Vacant" ->
                      [map |-> [entries |-> put, len |-> g.len + 1], ret |-> TRUE, hung |-> FALSE]
                 [] g.entries[index + 1].kind = "Tombstone" ->
                      [map |-> [entries |-> put, len |-> g.len], ret |-> TRUE, hung |-> FALSE]
                 [] OTHER ->
                      [map |-> [entries |-> put, len |-> g.len], ret |-> FALSE, hung |-> FALSE])))

insert(m, key, value) == set(m, key, value)

None == [some |-> FALSE, value |-> Nil, hung |-> FALSE]

Some(v) == [some |-> TRUE, value |-> v, hung |-> FALSE]

\* HashMap::get.
get(m, key) ==
    IF is_empty(m) THEN None
    ELSE With(find_entry_index(m.entries, key), LAMBDA index :
           IF index = Hang THEN [None EXCEPT !.hung = TRUE]
           ELSE IF m.entries[index + 1].kind = "Occupied" /\ m.entries[index + 1].key = key
           THEN Some(m.entries[index + 1].value)
           ELSE None)

\* HashMap::delete.
delete(m, key) ==
    IF is_empty(m) THEN [map |-> m, ret |-> FALSE, hung |-> FALSE]
    ELSE With(find_entry_index(m.entries, key), LAMBDA index :
           IF index = Hang THEN [map |-> m, ret |-> FALSE, hung |-> TRUE]
           ELSE IF m.entries[index + 1].kind # "Occupied"
           THEN [map |-> m, ret |-> FALSE, hung |-> FALSE]
           ELSE [map |-> [entries |-> [m.entries EXCEPT ![index + 1] = Tombstone],
                          len |-> m.len - 1],
                 ret |-> TRUE, hung |-> FALSE])

remove(m, key) == delete(m, key)

\* The keys and values of the HashMap driven on its own.
Keys == {<<Alphabet[i]>> : i \in 1..MaxKeys}

Values == {Number(k) : k \in 1..MaxValues}

\* The keys the HashMap is driven with.
Driven == {<<Alphabet[i]>> : i \in 1..MaxDriven}

\* The HashMap after its first n keys were set.
RECURSIVE Stored(_)
Stored(n) ==
    IF n = 0 THEN HashMap_new ELSE set(Stored(n - 1), <<Alphabet[n]>>, Number(1)).map

\* The HashMap after its first n keys were set and then deleted, one by one.
RECURSIVE Worn(_)
Worn(n) ==
    IF n = 0 THEN HashMap_new
    ELSE delete(set(Worn(n - 1), <<Alphabet[n]>>, Number(1)).map, <<Alphabet[n]>>).map

\* A new HashMap; kept: what its callers have set and not deleted since;
\* got: the last get and what it returned; hung: a call never returned.
Table_new ==
    [map |-> HashMap_new, kept |-> [key \in Keys |-> None],
     got |-> [key |-> <<>>, ret |-> None], hung |-> FALSE]

-----------------------------------------------------------------------------
(* Results.  A Rust Result is Ok or Err(msg, line); a panic (expect,       *)
(* unwrap, unreachable!, assert) unwinds through every caller.             *)

Ok == [kind |-> "Ok", msg |-> "", line |-> 0]

Err(msg, line) == [kind |-> "Err", msg |-> msg, line |-> line]

Panic(msg) == [kind |-> "Panic", msg |-> msg, line |-> 0]

\* The `?` operator leaves the function on anything but Ok.
Failed(c) == c.panicked \/ c.res.kind # "Ok"

Panicked(c) == c.panicked

\* A call whose Result is dropped: only a panic still unwinds.
Ignore(c) == [c EXCEPT !.res = Ok]

-----------------------------------------------------------------------------
(* Heap (src/src/heap.rs) and the boxed objects.  An address is the place  *)
(* of the object in mem; a handle is a Value holding the address.          *)

Heap_new == [objects |-> <<>>, strings |-> HashMap_new]

\* Handle::new / ManagedPtr::new / ObjPointer::new: box the object.
Box_new(m, object) == [mem |-> Append(m, object), ptr |-> Len(m) + 1]

\* Heap::allocate: box the value and keep its handle in objects.
Heap_allocate(h, m, value) ==
    [heap |-> [h EXCEPT !.objects = Append(@, Len(m) + 1)],
     mem |-> Box_new(m, value).mem, handle |-> Box_new(m, value).ptr]

\* Heap::allocate_string: allocates first, then looks the content up.
Heap_allocate_string(h, m, string) ==
    With(Heap_allocate(h, m, string), LAMBDA a :
      With(get(a.heap.strings, string), LAMBDA found :
        IF found.some
        THEN [heap |-> a.heap, mem |-> a.mem, handle |-> found.value.n]
        ELSE [heap |-> [a.heap EXCEPT !.strings = insert(@, string, Obj(a.handle)).map],
              mem |-> a.mem, handle |-> a.handle]))

\* Object::allocate_string (src/src/object.rs): looks up, then allocates.
Object_allocate_string(h, m, string) ==
    With(get(h.strings, string), LAMBDA found :
      IF found.some
      THEN [heap |-> h, mem |-> m, handle |-> found.value.n]
      ELSE With(Heap_allocate(h, m, string), LAMBDA a :
             [heap |-> [a.heap EXCEPT !.strings = insert(@, string, Obj(a.handle)).map],
              mem |-> a.mem, handle |-> a.handle]))

-----------------------------------------------------------------------------
(* Scanner (src/src/scanner.rs).  An item is [kind, text]; kind is the     *)
(* TokenKind scan_token gives the text, or Newline (the blank "\n"),       *)
(* Unterminated (a string literal with no closing quote, which runs to the *)
(* end of the source) or Unknown (a character scan_token has no arm for).  *)

Item(kind, text) == [kind |-> kind, text |-> text]

Token_new(kind, line, start, lexeme) ==
    [kind |-> kind, line |-> line, start |-> start, lexeme |-> lexeme]

Token_dummy == Token_new("Dummy", 0, 0, <<>>)

\* #[derive(PartialEq)] on Token: every field takes part.
TokenEq(a, b) ==
    a.kind = b.kind /\ a.line = b.line /\ a.start = b.start /\ a.lexeme = b.lexeme

\* Offset of item i in the source text: items are separated by one blank.
RECURSIVE StartOf(_, _)
StartOf(items, i) ==
    IF i <= 1 THEN 0 ELSE StartOf(items, i - 1) + Len(items[i - 1].text) + 1

SourceLen(items) ==
    IF items = <<>> THEN 0 ELSE StartOf(items, Len(items)) + Len(Last(items).text)

RECURSIVE CountNewlines(_)
CountNewlines(text) ==
    IF text = <<>> THEN 0
    ELSE CountNewlines(Front(text)) + (IF Last(text) = "\n" THEN 1 ELSE 0)

RECURSIVE NewlinesFrom(_, _)
NewlinesFrom(items, i) ==
    IF i > Len(items) THEN 0
    ELSE CountNewlines(items[i].text) + NewlinesFrom(items, i + 1)

Scanner_new == [pos |-> 0, line |-> 1]

\* skip_whitespace: blanks move on, "\n" also counts a line.
RECURSIVE skip_whitespace(_, _)
skip_whitespace(items, sc) ==
    IF sc.pos < Len(items) /\ items[sc.pos + 1].kind = "Newline"
    THEN skip_whitespace(items, [pos |-> sc.pos + 1, line |-> sc.line + 1])
    ELSE sc

\* scan_token: the scanner afterwards, the token, and Ok, Err or Panic.
scan_token(items, sc0) ==
    With(skip_whitespace(items, sc0), LAMBDA sc :
      IF sc.pos >= Len(items)
      THEN [sc |-> sc, res |-> Ok,
            tok |-> Token_new("Eof", sc.line, SourceLen(items), <<>>)]
      ELSE LET item == items[sc.pos + 1]
               after == [pos |-> sc.pos + 1, line |-> sc.line + CountNewlines(item.text)]
           IN CASE item.kind = "Unknown" ->
                      [sc |-> after, res |-> Panic("unreachable"), tok |-> Token_dummy]
                [] item.kind = "Unterminated" ->
                      With(sc.line + NewlinesFrom(items, sc.pos + 1), LAMBDA line :
                        [sc |-> [pos |-> Len(items), line |-> line],
                         res |-> Err("unterminated string literal", line),
                         tok |-> Token_dummy])
                [] OTHER ->
                      [sc |-> after, res |-> Ok,
                       tok |-> Token_new(item.kind, after.line, StartOf(items, sc.pos + 1),
                                         item.text)])

-----------------------------------------------------------------------------
(* Chunk and OpCode (src/src/bytecode.rs).  code holds bytes: an opcode    *)
(* is its discriminant, the place of its name in OpCodes counted from 0.   *)

OpCodes ==
    <<"Return", "AddConstant", "AddNil", "AddTrue", "AddFalse", "Equal", "Greater",
      "Less", "Negate", "Add", "Substract", "Multiply", "Divide", "Not", "Print",
      "Pop", "DefineGlobal", "GetGlobal", "SetGlobal", "GetLocal", "SetLocal",
      "JumpIfFalse", "Jump", "Loop">>

Op(name) == (CHOOSE i \in 1..Len(OpCodes) : OpCodes[i] = name) - 1

Chunk_new == [code |-> <<>>, lines |-> <<>>, constants |-> <<>>]

-----------------------------------------------------------------------------
(* The Disassembler (src/src/bytecode.rs).  Its output is text; the model  *)
(* keeps where it stands, the offsets it disassembled, and whether it read *)
(* an element its chunk does not hold.                                     *)

\* RawArray: the slots allocated for `count` pushed elements.  Indexing an
\* Array goes through a slice of all of them.
RECURSIVE Slots(_, _)
Slots(count, have) ==
    IF have >= count THEN have ELSE Slots(count, IF have < 8 THEN 8 ELSE have * 2)

\* array[index]: "ok" on an element, "past" on a slot behind the last
\* element (no element was written there), "panic" behind the slots.
Indexed(array, index) ==
    IF index < Len(array) THEN "ok"
    ELSE IF index < Slots(Len(array), 0) THEN "past"
    ELSE "panic"

\* state: "ready", or "panic" after an index out of bounds; past: it read
\* a slot that holds no element.
Disassembler_new == [offset |-> 0, visited |-> <<>>, state |-> "ready", past |-> FALSE]

\* The disassembler after the reads `reads` (each "ok", "past" or "panic")
\* and, unless one panicked, `width` bytes further.
Advanced(d, reads, width) ==
    IF \E i \in 1..Len(reads) : reads[i] = "panic" THEN [d EXCEPT !.state = "panic"]
    ELSE [d EXCEPT !.offset = @ + width,
                   !.past = @ \/ \E i \in 1..Len(reads) : reads[i] = "past"]

simple_instruction(d, chunk) == Advanced(d, <<>>, 1)

\* The byte behind the opcode, or 0 from a slot never written.
ByteAfter(d, chunk) ==
    IF d.offset + 1 < Len(chunk.code) THEN chunk.code[d.offset + 2] ELSE 0

constant_instruction(d, chunk) ==
    Advanced(d, <<Indexed(chunk.code, d.offset + 1),
                  Indexed(chunk.constants, ByteAfter(d, chunk))>>, 2)

byte_instruction(d, chunk) == Advanced(d, <<Indexed(chunk.code, d.offset + 1)>>, 2)

jump_instruction(d, chunk) ==
    Advanced(d, <<Indexed(chunk.code, d.offset + 1), Indexed(chunk.code, d.offset + 2)>>, 3)

\* One turn of the loop of disassemble, at an offset inside the code.
disassemble_current_instruction(d, chunk) ==
    With(OpCodes[chunk.code[d.offset + 1] + 1], LAMBDA opcode :
      With([d EXCEPT !.visited = Append(@, d.offset)], LAMBDA at :
        CASE opcode \in {"Return", "Negate", "Add", "Substract", "Multiply", "Divide",
                         "Not", "Print", "Pop"} -> simple_instruction(at, chunk)
          [] opcode \in {"AddConstant", "AddNil", "AddTrue", "AddFalse", "Equal",
                         "Greater", "Less", "DefineGlobal", "GetGlobal", "SetGlobal"}
               -> constant_instruction(at, chunk)
          [] opcode \in {"GetLocal", "SetLocal"} -> byte_instruction(at, chunk)
          [] OTHER -> jump_instruction(at, chunk)))

\* The bytes of an instruction of the Vm: the opcode and what run reads
\* behind it with read_byte or read_short.
Width(opcode) ==
    CASE opcode \in {"AddConstant", "DefineGlobal", "GetGlobal", "SetGlobal", "GetLocal",
                     "SetLocal"} -> 2
      [] opcode \in {"JumpIfFalse", "Jump", "Loop"} -> 3
      [] OTHER -> 1

Chunk_write(chunk, byte, line) ==
    [chunk EXCEPT !.code = Append(@, byte), !.lines = Append(@, line)]

-----------------------------------------------------------------------------
(* The compiler (src/src/compiler.rs).  Every function takes the           *)
(* CompilerCtx and gives it back; res is the Result the function returned  *)
(* and ret the value inside an Ok.  live and log are history: the locals   *)
(* that are lexically in scope, and what was declared and resolved.        *)

Precedences ==
    <<"None", "Assignment", "Or", "And", "Equality", "Comparison", "Term", "Factor",
      "Unary", "Call", "Primary">>

Prec(name) == (CHOOSE i \in 1..Len(Precedences) : Precedences[i] = name) - 1

\* A precedence that is not raised: what higher is not.
higherNot(p) == p

higher(p) == IF p = Prec("Primary") THEN p ELSE p + 1

Rule(prefix, infix, precedence) ==
    [prefix |-> prefix, infix |-> infix, precedence |-> Prec(precedence)]

\* get_parse_rule, for every kind but Dummy (on which it asserts).
get_parse_rule(kind) ==
    CASE kind = "LeftParen" -> Rule("grouping", "none", "None")
      [] kind = "Minus" -> Rule("unary", "binary", "Term")
      [] kind = "Plus" -> Rule("none", "binary", "Term")
      [] kind \in {"Slash", "Star"} -> Rule("none", "binary", "Factor")
      [] kind = "Bang" -> Rule("unary", "none", "None")
      [] kind \in {"BangEqual", "EqualEqual"} -> Rule("none", "binary", "Equality")
      [] kind \in {"Greater", "GreaterEqual", "Less", "LessEqual"} ->
            Rule("none", "binary", "Comparison")
      [] kind = "Identifier" -> Rule("variable", "none", "None")
      [] kind = "String" -> Rule("string", "none", "None")
      [] kind = "Number" -> Rule("number", "none", "None")
      [] kind = "And" -> Rule("none", "and_", "And")
      [] kind = "Or" -> Rule("none", "or_", "Or")
      [] kind \in {"False", "Nil", "True"} -> Rule("literal", "none", "None")
      [] OTHER -> Rule("none", "none", "None")

Local_new(name, depth) == [name |-> name, depth |-> depth]

CompilerCtx_new(items, heap, m) ==
    [items |-> items, scanner |-> Scanner_new,
     previous |-> Token_dummy, current |-> Token_dummy,
     chunk |-> Chunk_new, had_error |-> FALSE, panic_mode |-> FALSE,
     local_count |-> 0, scope_depth |-> 0, locals |-> <<>>,
     heap |-> heap, mem |-> m,
     res |-> Ok, ret |-> 0, panicked |-> FALSE, live |-> <<>>, log |-> <<>>]

\* One entry of the history: the event and the locals as they stand.
Event(c, ev, name, assign, arg, res, dup) ==
    [ev |-> ev, name |-> name, assign |-> assign, arg |-> arg, res |-> res, dup |-> dup,
     locals |-> c.locals, local_count |-> c.local_count,
     scope_depth |-> c.scope_depth, live |-> c.live]

\* history: the error e is raised, and written down in the order of raising.
Raise(c, e) ==
    [c EXCEPT !.res = e,
              !.log = Append(@, Event(c, "error", <<>>, FALSE, 0, e, FALSE))]

\* The ? operator: an Err (or a panic) of c is returned, otherwise K goes on.
Try(c, K(_)) == IF Failed(c) THEN c ELSE K(c)

\* A call whose Result is dropped: K goes on unless the call panicked.
Then(c, K(_)) == IF Panicked(c) THEN c ELSE K(Ignore(c))

\* A panic of the compiler: nothing after it runs.
Abort(c, msg) == [c EXCEPT !.res = Panic(msg), !.panicked = TRUE]

advance(c) ==
    With(scan_token(c.items, c.scanner), LAMBDA s :
      IF s.res.kind = "Ok"
      THEN [c EXCEPT !.previous = c.current, !.scanner = s.sc, !.current = s.tok, !.res = Ok]
      ELSE IF s.res.kind = "Panic"
      THEN [c EXCEPT !.previous = c.current, !.scanner = s.sc, !.res = s.res,
                     !.panicked = TRUE]
      ELSE Raise([c EXCEPT !.previous = c.current, !.scanner = s.sc], s.res))

check(c, kind) == c.current.kind = kind

\* matches: the context afterwards; it returns check(c, kind).
matches(c, kind) == IF check(c, kind) THEN Ignore(advance(c)) ELSE c

consume(c, kind, error_msg) ==
    IF c.current.kind = kind THEN Ignore(advance(c))
    ELSE Raise(c, Err(error_msg, c.current.line))

emit_byte(c, byte) == [c EXCEPT !.chunk = Chunk_write(@, byte, c.previous.line)]

emit_bytes(c, byte1, byte2) == emit_byte(emit_byte(c, byte1), byte2)

emit_return(c) == emit_byte(c, Op("Return"))

\* make_constant: Chunk::add_constant's index, cast to u8.
make_constant(c, value) ==
    [c EXCEPT !.chunk.constants = Append(@, value),
              !.ret = Len(c.chunk.constants) % 256]

emit_constant(c, value) ==
    With(make_constant(c, value), LAMBDA m : emit_bytes(m, Op("AddConstant"), m.ret))

\* emit_jump: ret is the offset of the first placeholder byte.
emit_jump(c, jump_op) ==
    With(emit_byte(emit_byte(emit_byte(c, Op(jump_op)), 255), 255), LAMBDA e :
      [e EXCEPT !.ret = (Len(e.chunk.code) - 2) % 65536])

\* patch_jump: the u16 in native (little-endian) byte order.
patch_jump(c, offset) ==
    LET jump == ((Len(c.chunk.code) % 65536) - offset - 2) % 65536
    IN [c EXCEPT !.chunk.code[offset + 1] = jump % 256,
                 !.chunk.code[offset + 2] = jump \div 256]

emit_loop(c, loop_start) ==
    With(emit_byte(c, Op("Loop")), LAMBDA e :
      With(((Len(e.chunk.code) % 65536) - loop_start + 2) % 65536, LAMBDA offset :
        emit_byte(emit_byte(e, offset % 256), offset \div 256)))

Digits == <<"0", "1", "2", "3", "4", "5", "6", "7", "8", "9">>

DigitValue(ch) == (CHOOSE i \in 1..Len(Digits) : Digits[i] = ch) - 1

\* f64::from_str on a lexeme of decimal digits.
RECURSIVE ParseNumber(_)
ParseNumber(text) ==
    IF text = <<>> THEN 0 ELSE ParseNumber(Front(text)) * 10 + DigitValue(Last(text))

number(c) == Ignore(emit_constant(c, Number(ParseNumber(c.previous.lexeme))))

\* string: the literal without its quotes, through the heap's interner.
string(c) ==
    With(Heap_allocate_string(c.heap, c.mem,
                              SubSeq(c.previous.lexeme, 2, Len(c.previous.lexeme) - 1)),
         LAMBDA a : Ignore(emit_constant([c EXCEPT !.heap = a.heap, !.mem = a.mem],
                                         Obj(a.handle))))

literal(c) ==
    Ignore(emit_byte(c, Op(CASE c.previous.kind = "False" -> "AddFalse"
                             [] c.previous.kind = "Nil" -> "AddNil"
                             [] OTHER -> "AddTrue")))

\* identifier_constant: interns the lexeme of ctx.previous.
identifier_constant(c, token) ==
    With(Heap_allocate_string(c.heap, c.mem, c.previous.lexeme), LAMBDA a :
      make_constant([c EXCEPT !.heap = a.heap, !.mem = a.mem], Obj(a.handle)))

\* The scan of resolve_local over locals[i ..]: the slot, -1, or -2 for the
\* local found with depth -1.
RECURSIVE resolve_scan(_, _, _)
resolve_scan(c, name, i) ==
    IF i > c.local_count THEN -1
    ELSE IF TokenEq(name, c.locals[i].name)
         THEN (IF c.locals[i].depth = -1 THEN -2 ELSE i - 1)
    ELSE resolve_scan(c, name, i + 1)

resolve_local(c, name) ==
    With(resolve_scan(c, name, 1), LAMBDA index :
      IF index = -2
      THEN Raise(c, Err("can't read local variable in its own initializer.",
                        c.current.line))
      ELSE [c EXCEPT !.res = Ok, !.ret = index])

\* The scan of declare_variable over locals[i ..]: TRUE when it meets the name
\* before it meets a local of an enclosing scope.
RECURSIVE declared_scan(_, _, _)
declared_scan(c, name, i) ==
    IF i > c.local_count THEN FALSE
    ELSE IF c.locals[i].depth # -1 /\ c.locals[i].depth < c.scope_depth THEN FALSE
    ELSE IF TokenEq(name, c.locals[i].name) THEN TRUE
    ELSE declared_scan(c, name, i + 1)

add_local(c, name) ==
    [c EXCEPT !.local_count = @ + 1,
              !.locals = Append(@, Local_new(name, -1)),
              !.res = Ok]

\* history: the name is live in the innermost scope already.
LiveDup(c, lexeme) ==
    \E i \in 1..Len(c.live) : c.live[i].name = lexeme /\ c.live[i].depth = c.scope_depth

\* history: c with the event written down.
Logged(c, ev, name, assign, arg, dup) ==
    [c EXCEPT !.log = Append(@, Event(c, ev, name, assign, arg, c.res, dup))]

declare_variable(c) ==
    IF c.scope_depth = 0 THEN [c EXCEPT !.res = Ok]
    ELSE IF declared_scan(c, c.previous, 1)
    THEN Logged(Raise(c, Err("already a variable with this name in this scope.",
                             c.current.line)),
                "declare", c.previous.lexeme, FALSE, 0, LiveDup(c, c.previous.lexeme))
    ELSE Logged([add_local(c, c.previous)
                    EXCEPT !.live = Append(@, [name |-> c.previous.lexeme,
                                               depth |-> c.scope_depth, init |-> FALSE])],
                "declare", c.previous.lexeme, FALSE, 0, LiveDup(c, c.previous.lexeme))

make_initialized(c) ==
    Logged([c EXCEPT !.locals[c.local_count].depth = c.scope_depth,
                     !.live[Len(c.live)].init = TRUE],
           "define", c.live[Len(c.live)].name, FALSE, 0, FALSE)

define_variable(c, global_index) ==
    IF c.scope_depth > 0 THEN make_initialized(c)
    ELSE emit_bytes(c, Op("DefineGlobal"), global_index)

parse_variable(c, error_msg) ==
    Try(consume(c, "Identifier", error_msg), LAMBDA c1 :
      Try(declare_variable(c1), LAMBDA c2 :
        IF c2.scope_depth > 0 THEN [c2 EXCEPT !.ret = 0]
        ELSE identifier_constant(c2, c2.previous)))

begin_scope(c) == [c EXCEPT !.scope_depth = @ + 1]

RECURSIVE end_scope_loop(_)
end_scope_loop(c) ==
    IF c.local_count > 0 /\ c.locals[c.local_count].depth > c.scope_depth
    THEN end_scope_loop([emit_byte(c, Op("Pop")) EXCEPT !.local_count = @ - 1])
    ELSE c

\* history: the locals of the scopes that have ended are live no more.
Unscoped(c) == [c EXCEPT !.live = SelectSeq(@, LAMBDA x : x.depth <= c.scope_depth)]

end_scope(c) ==
    Logged(Unscoped(end_scope_loop([c EXCEPT !.scope_depth = @ - 1])),
           "end_scope", <<>>, FALSE, 0, FALSE)

RECURSIVE parse_precedence(_, _), parse_infix_loop(_, _, _, _), prefix_fn(_, _, _),
          infix_fn(_, _, _), named_variable(_, _, _)

expression(c) == parse_precedence(c, Prec("Assignment"))

grouping(c, can_assign) ==
    Try(expression(c), LAMBDA e : consume(e, "RightParen", "expect ')' after expression."))

\* The bytes binary emits for the operator.
emit_operator(c, kind) ==
    CASE kind = "BangEqual" -> emit_bytes(c, Op("Equal"), Op("Not"))
      [] kind = "EqualEqual" -> emit_byte(c, Op("Equal"))
      [] kind = "Greater" -> emit_byte(c, Op("Greater"))
      [] kind = "GreaterEqual" -> emit_bytes(c, Op("Less"), Op("Not"))
      [] kind = "Less" -> emit_byte(c, Op("Less"))
      [] kind = "LessEqual" -> emit_bytes(c, Op("Greater"), Op("Not"))
      [] kind = "Plus" -> emit_byte(c, Op("Add"))
      [] kind = "Minus" -> emit_byte(c, Op("Substract"))
      [] kind = "Star" -> emit_byte(c, Op("Multiply"))
      [] kind = "Slash" -> emit_byte(c, Op("Divide"))
      [] OTHER -> c

binary(c, can_assign) ==
    Try(parse_precedence(c, higher(get_parse_rule(c.previous.kind).precedence)),
        LAMBDA p : emit_operator(p, c.previous.kind))

unary(c, can_assign) ==
    Try(parse_precedence(c, Prec("Unary")), LAMBDA p :
      IF c.previous.kind = "Bang" THEN emit_byte(p, Op("Not"))
      ELSE emit_byte(p, Op("Negate")))

variable(c, can_assign) == named_variable(c, c.previous, can_assign)

\* named_variable once the name is resolved: g is the context, slot the local
\* slot or -1, arg the operand.
emit_variable(g, name, assign, slot, arg) ==
    With(Logged(g, "resolve", name.lexeme, assign, slot, FALSE), LAMBDA l :
      IF assign
      THEN Then(expression(matches(l, "Equal")), LAMBDA e :
             emit_bytes(e, IF slot # -1 THEN Op("SetLocal") ELSE Op("SetGlobal"), arg % 256))
      ELSE emit_bytes(l, IF slot # -1 THEN Op("GetLocal") ELSE Op("GetGlobal"), arg % 256))

named_variable(c, name, can_assign) ==
    With(resolve_local(c, name), LAMBDA r :
      IF Failed(r)
      THEN Logged(r, "resolve", name.lexeme, can_assign /\ check(c, "Equal"), -1, FALSE)
      ELSE IF r.ret # -1
      THEN emit_variable(r, name, can_assign /\ check(c, "Equal"), r.ret, r.ret)
      ELSE With(identifier_constant(r, name), LAMBDA g :
             emit_variable(g, name, can_assign /\ check(c, "Equal"), -1, g.ret)))

and_(c, can_assign) ==
    With(emit_jump(c, "JumpIfFalse"), LAMBDA end_jump :
      Then(parse_precedence(emit_byte(end_jump, Op("Pop")), Prec("And")), LAMBDA p :
        patch_jump(p, end_jump.ret)))

or_(c, can_assign) ==
    With(emit_jump(c, "JumpIfFalse"), LAMBDA else_jump :
      With(emit_jump(else_jump, "Jump"), LAMBDA end_jump :
        Then(parse_precedence(emit_byte(patch_jump(end_jump, else_jump.ret), Op("Pop")),
                              Prec("Or")),
             LAMBDA p : patch_jump(p, end_jump.ret))))

prefix_fn(fn, c, can_assign) ==
    CASE fn = "grouping" -> grouping(c, can_assign)
      [] fn = "unary" -> unary(c, can_assign)
      [] fn = "variable" -> variable(c, can_assign)
      [] fn = "string" -> string(c)
      [] fn = "number" -> number(c)
      [] OTHER -> literal(c)

infix_fn(fn, c, can_assign) ==
    CASE fn = "binary" -> binary(c, can_assign)
      [] fn = "and_" -> and_(c, can_assign)
      [] OTHER -> or_(c, can_assign)

\* The while loop and the tail of parse_precedence; result is its local.
parse_infix_loop(c, result, precedence, can_assign) ==
    IF Panicked(c) THEN c
    ELSE IF c.current.kind = "Dummy" THEN Abort(c, "assertion failed")
    ELSE IF precedence <= get_parse_rule(c.current.kind).precedence
    THEN Then(advance(c), LAMBDA a :
           IF get_parse_rule(a.previous.kind).infix # "none"
           THEN With(infix_fn(get_parse_rule(a.previous.kind).infix, a, can_assign), LAMBDA r :
                  parse_infix_loop(Ignore(r), r.res, precedence, can_assign))
           ELSE parse_infix_loop(a, result, precedence, can_assign))
    ELSE IF can_assign /\ check(c, "Equal")
    THEN Then(matches(c, "Equal"), LAMBDA m :
           Raise(m, Err("invalid assignment target.", m.current.line)))
    ELSE [c EXCEPT !.res = result]

parse_precedence(c, precedence) ==
    Then(advance(c), LAMBDA a :
      IF a.previous.kind = "Dummy" THEN Abort(a, "assertion failed")
      ELSE With(IF get_parse_rule(a.previous.kind).prefix # "none"
                THEN prefix_fn(get_parse_rule(a.previous.kind).prefix, a,
                               precedence <= Prec("Assignment"))
                ELSE Raise(a, Err("expect expression.", a.current.line)),
                LAMBDA p : parse_infix_loop(Ignore(p), p.res, precedence,
                                            precedence <= Prec("Assignment"))))

RECURSIVE declaration(_), statement(_), block(_), if_statement(_), while_statement(_),
          synchronize(_), compile_loop(_)

expression_statement(c) ==
    Try(expression(c), LAMBDA e :
      Try(consume(e, "Semicolon", "expect ';' after expression."), LAMBDA s :
        emit_byte(s, Op("Pop"))))

print_statement(c) ==
    Try(expression(c), LAMBDA e :
      Try(consume(e, "Semicolon", "expect ';' after value."), LAMBDA s :
        emit_byte(s, Op("Print"))))

var_declaration(c) ==
    Try(parse_variable(c, "expect variable name."), LAMBDA v :
      Try(IF check(v, "Equal") THEN expression(matches(v, "Equal"))
          ELSE emit_byte(v, Op("AddNil")),
          LAMBDA e :
            Try(consume(e, "Semicolon", "expect ';' after variable declaration."),
                LAMBDA s : define_variable(s, v.ret))))

block(c) ==
    IF Panicked(c) THEN c
    ELSE IF ~check(c, "RightBrace") /\ ~check(c, "Eof")
    THEN Try(declaration(c), LAMBDA d : block(d))
    ELSE consume(c, "RightBrace", "expect '}' after block.")

if_statement(c) ==
    Try(consume(c, "LeftParen", "expect '(' after 'if'."), LAMBDA l :
    Try(expression(l), LAMBDA e :
    Try(consume(e, "RightParen", "expect ')' after condition."), LAMBDA r :
    With(emit_jump(r, "JumpIfFalse"), LAMBDA then_jump :
    Try(statement(emit_byte(then_jump, Op("Pop"))), LAMBDA t :
    With(emit_jump(t, "Jump"), LAMBDA else_jump :
    Try(With(emit_byte(patch_jump(else_jump, then_jump.ret), Op("Pop")), LAMBDA p :
          IF check(p, "Else") THEN statement(matches(p, "Else")) ELSE p),
        LAMBDA s : patch_jump(s, else_jump.ret))))))))

while_statement(c) ==
    Try(consume(c, "LeftParen", "expect '(' after 'while'."), LAMBDA l :
    Try(expression(l), LAMBDA e :
    Try(consume(e, "RightParen", "expect ')' after condition."), LAMBDA r :
    With(emit_jump(r, "JumpIfFalse"), LAMBDA exit_jump :
    Try(statement(emit_byte(exit_jump, Op("Pop"))), LAMBDA t :
      emit_byte(patch_jump(emit_loop(t, Len(c.chunk.code) % 65536), exit_jump.ret),
                Op("Pop")))))))

statement(c) ==
    CASE check(c, "Print") -> print_statement(matches(c, "Print"))
      [] check(c, "If") -> if_statement(matches(c, "If"))
      [] check(c, "While") -> while_statement(matches(c, "While"))
      [] check(c, "LeftBrace") ->
            Try(block(begin_scope(matches(c, "LeftBrace"))), LAMBDA b : end_scope(b))
      [] OTHER -> expression_statement(c)

synchronize(c) ==
    IF Panicked(c) \/ c.current.kind = "Eof" THEN [c EXCEPT !.panic_mode = FALSE]
    ELSE IF c.previous.kind = "Semicolon" THEN [c EXCEPT !.panic_mode = FALSE]
    ELSE IF c.current.kind \in {"Class", "Fun", "Var", "For", "If", "While", "Print", "Return"}
    THEN [c EXCEPT !.panic_mode = FALSE]
    ELSE Try(advance([c EXCEPT !.panic_mode = FALSE]), LAMBDA a : synchronize(a))

\* history: a statement starts at this offset with these locals live.
Boundary(c) == Logged(c, "stmt", <<>>, FALSE, Len(c.chunk.code), FALSE)

declaration(c) ==
    Try(IF check(c, "Var") THEN var_declaration(matches(Boundary(c), "Var"))
        ELSE statement(Boundary(c)),
        LAMBDA d : IF d.panic_mode THEN synchronize(d) ELSE d)

end(c) == emit_return(c)

compile_loop(c) ==
    IF Panicked(c) THEN c
    ELSE IF ~check(c, "Eof") THEN Try(declaration(c), LAMBDA d : compile_loop(d))
    ELSE Then(matches(Boundary(c), "Eof"), LAMBDA m : end(m))

\* Compiler::compile over a fresh context that shares the heap.
compile(items, heap, m) == compile_loop(Ignore(advance(CompilerCtx_new(items, heap, m))))

-----------------------------------------------------------------------------
(* The virtual machine (src/src/vm.rs).  ip is the offset of the next byte *)
(* in chunk.code.  A step of run gives an outcome: the Vm and the memory   *)
(* afterwards, whether run goes on, what interpret returned if it does     *)
(* not, and what the step printed.                                         *)

Vm_new == [chunk |-> Chunk_new, ip |-> 0, stack |-> <<>>, globals |-> HashMap_new, last |-> Nil]

NoResult == [kind |-> "None", msg |-> "", line |-> 0, value |-> Nil, name |-> <<>>]

InterpretOk(value) == [NoResult EXCEPT !.kind = "Ok", !.value = value]

CompileError(e) == [NoResult EXCEPT !.kind = "Compile", !.msg = e.msg, !.line = e.line]

RuntimeError(msg, line, name) ==
    [NoResult EXCEPT !.kind = "Runtime", !.msg = msg, !.line = line, !.name = name]

Outcome(v, m, st, ret, printed) ==
    [vm |-> v, mem |-> m, status |-> st, returned |-> ret, printed |-> printed]

Continue(v, m) == Outcome(v, m, "running", NoResult, <<>>)

\* A Rust panic unwinds out of interpret.
VmPanic(v, m, msg) == Outcome(v, m, "panic", [NoResult EXCEPT !.kind = "Panic", !.msg = msg], <<>>)

\* A read outside the chunk or the constants: undefined behaviour.
Undefined(v, m) == Outcome(v, m, "ub", [NoResult EXCEPT !.kind = "Undefined"], <<>>)

\* A probe of the globals table that never ends.
Hung(v, m) == Outcome(v, m, "hang", [NoResult EXCEPT !.kind = "Hang"], <<>>)

InCode(v, n) == v.ip + n <= Len(v.chunk.code)

read_byte(v) == [vm |-> [v EXCEPT !.ip = @ + 1], byte |-> v.chunk.code[v.ip + 1]]

read_short(v) ==
    [vm |-> [v EXCEPT !.ip = @ + 2],
     short |-> v.chunk.code[v.ip + 1] + 256 * v.chunk.code[v.ip + 2]]

push(v, value) == [v EXCEPT !.stack = Append(@, value)]

\* pop on a stack that is not empty.
pop(v) == [v EXCEPT !.stack = Front(@), !.last = Last(v.stack)]

\* Stack::peek: the value at distance from the top.
peek(v, distance) == v.stack[Len(v.stack) - distance]

HasPeek(v, distance) == distance < Len(v.stack)

current_line(v) == v.chunk.lines[v.ip + 1]

\* The Err of Vm::peek: the stack is left as it is.
peek_error(v, m, distance) ==
    IF v.ip >= Len(v.chunk.lines) THEN Undefined(v, m)
    ELSE Outcome(v, m, "runtime_error",
                 RuntimeError(IF distance = 0 THEN "no value at distance: 0 in the stack."
                              ELSE "no value at distance: 1 in the stack.",
                              current_line(v), <<>>),
                 <<>>)

reset_stack(v) == [v EXCEPT !.stack = <<>>]

\* vm_error and runtime_error: the line at ip, the stack reset.
vm_error(v, m, message, name) ==
    IF v.ip >= Len(v.chunk.lines) THEN Undefined(v, m)
    ELSE Outcome(reset_stack(v), m, "runtime_error",
                 RuntimeError(message, current_line(v), name), <<>>)

runtime_error(v, m, message) == vm_error(v, m, message, <<>>)

\* A concatenation that puts the right operand first: what Value + Value is not.
ValueAddRightFirst(m, left, right) ==
    IF is_number(left) THEN [mem |-> m, value |-> NumAdd(left, right)]
    ELSE [mem |-> Box_new(m, m[right.n] \o m[left.n]).mem,
          value |-> Obj(Box_new(m, m[right.n] \o m[left.n]).ptr)]

\* Value + Value for two Numbers or two Obj: the concatenation is boxed anew.
ValueAdd(m, left, right) ==
    IF is_number(left) THEN [mem |-> m, value |-> NumAdd(left, right)]
    ELSE [mem |-> Box_new(m, m[left.n] \o m[right.n]).mem,
          value |-> Obj(Box_new(m, m[left.n] \o m[right.n]).ptr)]

op_add(v, m) ==
    IF ~HasPeek(v, 1) THEN peek_error(v, m, 1)
    ELSE IF (is_number(peek(v, 1)) /\ is_number(peek(v, 0)))
            \/ (is_string(peek(v, 1)) /\ is_string(peek(v, 0)))
    THEN With(ValueAdd(m, peek(v, 1), peek(v, 0)), LAMBDA sum :
           Continue(push(pop(pop(v)), sum.value), sum.mem))
    ELSE runtime_error(v, m, "operands must be two numbers of two strings.")

\* check_both_number followed by the two pops and the push of a binary arm.
op_binary(v, m, opcode) ==
    IF ~HasPeek(v, 1) THEN runtime_error(v, m, "missing operand.")
    ELSE LET left == peek(v, 1)
             right == peek(v, 0)
         IN IF ~is_number(left) \/ ~is_number(right)
            THEN runtime_error(v, m, "operand must be a number.")
            ELSE Continue(push(pop(pop(v)),
                               CASE opcode = "Substract" -> NumSub(left, right)
                                 [] opcode = "Multiply" -> NumMul(left, right)
                                 [] opcode = "Divide" -> NumDiv(left, right)
                                 [] opcode = "Greater" -> Boolean(NumGreater(left, right))
                                 [] OTHER -> Boolean(NumLess(left, right))), m)

op_negate(v, m) ==
    IF ~HasPeek(v, 0) THEN VmPanic(v, m, "unwrap on None")
    ELSE IF ~is_number(peek(v, 0)) THEN runtime_error(v, m, "operand must be a number.")
    ELSE Continue(push(pop(v), NumNeg(peek(v, 0))), m)

op_not(v, m) ==
    IF ~HasPeek(v, 0) THEN VmPanic(v, m, "empty stack")
    ELSE Continue(push(pop(v), Boolean(is_falsey(peek(v, 0)))), m)

op_equal(v, m) ==
    IF ~HasPeek(v, 0) THEN VmPanic(v, m, "empty stack")
    ELSE IF ~HasPeek(v, 1) THEN VmPanic(pop(v), m, "empty stack")
    ELSE Continue(push(pop(pop(v)), Boolean(ValueEq(peek(v, 1), peek(v, 0)))), m)

op_print(v, m) ==
    IF ~HasPeek(v, 0) THEN VmPanic(v, m, "empty stack")
    ELSE Outcome(pop(v), m, "running", NoResult, <<peek(v, 0)>>)

op_pop(v, m) ==
    IF ~HasPeek(v, 0) THEN VmPanic(v, m, "empty stack") ELSE Continue(pop(v), m)

\* read_constant: get_unchecked on the constants.
read_constant(v) ==
    LET r == read_byte(v)
    IN [vm |-> r.vm, defined |-> r.byte < Len(v.chunk.constants),
        value |-> IF r.byte < Len(v.chunk.constants) THEN v.chunk.constants[r.byte + 1] ELSE Nil]

op_constant(v, m) ==
    IF ~InCode(v, 1) THEN Undefined(v, m)
    ELSE With(read_constant(v), LAMBDA r :
           IF r.defined THEN Continue(push(r.vm, r.value), m) ELSE Undefined(r.vm, m))

\* The name operand of a global instruction, as read_string gives it.
NameOperand(v, m) ==
    IF InCode(v, 1) /\ read_constant(v).defined /\ is_string(read_constant(v).value)
    THEN m[read_constant(v).value.n] ELSE <<>>

\* read_string, and then the arm `arm` of a global instruction.
WithName(v, m, arm(_, _)) ==
    IF ~InCode(v, 1) THEN Undefined(v, m)
    ELSE With(read_constant(v), LAMBDA r :
           IF ~r.defined THEN Undefined(r.vm, m)
           ELSE IF ~is_string(r.value) THEN VmPanic(r.vm, m, "unwrap on None")
           ELSE arm(r.vm, m[r.value.n]))

op_define_global(v, m) ==
    WithName(v, m, LAMBDA w, name :
      IF ~HasPeek(w, 0) THEN peek_error(w, m, 0)
      ELSE With(insert(w.globals, name, peek(w, 0)), LAMBDA s :
             IF s.hung THEN Hung(w, m)
             ELSE Continue(pop([w EXCEPT !.globals = s.map]), m)))

op_get_global(v, m) ==
    WithName(v, m, LAMBDA w, name :
      With(get(w.globals, name), LAMBDA g :
        IF g.hung THEN Hung(w, m)
        ELSE IF g.some THEN Continue(push(w, g.value), m)
        ELSE vm_error(w, m, "undefined variable", name)))

op_set_global(v, m) ==
    WithName(v, m, LAMBDA w, name :
      IF ~HasPeek(w, 0) THEN peek_error(w, m, 0)
      ELSE With(insert(w.globals, name, peek(w, 0)), LAMBDA s :
             IF s.hung THEN Hung(w, m)
             ELSE IF ~s.ret THEN Continue([w EXCEPT !.globals = s.map], m)
             ELSE With(remove(s.map, name), LAMBDA d :
                    IF d.hung THEN Hung(w, m)
                    ELSE vm_error([w EXCEPT !.globals = d.map], m,
                                  "undefined variable", name))))

op_get_local(v, m) ==
    IF ~InCode(v, 1) THEN Undefined(v, m)
    ELSE LET r == read_byte(v)
         IN IF r.byte >= Len(v.stack) THEN VmPanic(r.vm, m, "index out of bounds")
            ELSE Continue(push(r.vm, v.stack[r.byte + 1]), m)

op_set_local(v, m) ==
    IF ~InCode(v, 1) THEN Undefined(v, m)
    ELSE LET r == read_byte(v)
         IN IF ~HasPeek(v, 0) THEN peek_error(r.vm, m, 0)
            ELSE IF r.byte >= Len(v.stack) THEN VmPanic(r.vm, m, "index out of bounds")
            ELSE Continue([r.vm EXCEPT !.stack[r.byte + 1] = peek(v, 0)], m)

op_jump_if_false(v, m) ==
    IF ~InCode(v, 2) THEN Undefined(v, m)
    ELSE LET r == read_short(v)
         IN IF ~HasPeek(v, 0) THEN peek_error(r.vm, m, 0)
            ELSE IF is_falsey(peek(v, 0)) THEN Continue([r.vm EXCEPT !.ip = @ + r.short], m)
            ELSE Continue(r.vm, m)

op_jump(v, m) ==
    IF ~InCode(v, 2) THEN Undefined(v, m)
    ELSE LET r == read_short(v) IN Continue([r.vm EXCEPT !.ip = @ + r.short], m)

op_loop(v, m) ==
    IF ~InCode(v, 2) THEN Undefined(v, m)
    ELSE LET r == read_short(v)
         IN IF r.short > r.vm.ip THEN Undefined(r.vm, m)
            ELSE Continue([r.vm EXCEPT !.ip = @ - r.short], m)

\* The opcode at ip, or "" when the byte is none or there is no byte.
OpAt(v) ==
    IF InCode(v, 1) /\ v.chunk.code[v.ip + 1] < Len(OpCodes)
    THEN OpCodes[v.chunk.code[v.ip + 1] + 1] ELSE ""

\* One turn of the loop of run.
run_step(v, m) ==
    IF ~InCode(v, 1) THEN Undefined(v, m)
    ELSE With(read_byte(v).vm, LAMBDA w :
      With(OpAt(v), LAMBDA opcode :
           CASE opcode = "" -> VmPanic(w, m, "internal error: cannot decode instruction.")
             [] opcode = "Return" -> Outcome(w, m, "ok", InterpretOk(w.last), <<>>)
             [] opcode = "AddConstant" -> op_constant(w, m)
             [] opcode = "Negate" -> op_negate(w, m)
             [] opcode = "Add" -> op_add(w, m)
             [] opcode \in {"Substract", "Multiply", "Divide", "Greater", "Less"} ->
                   op_binary(w, m, opcode)
             [] opcode = "AddNil" -> Continue(push(w, Nil), m)
             [] opcode = "AddTrue" -> Continue(push(w, Boolean(TRUE)), m)
             [] opcode = "AddFalse" -> Continue(push(w, Boolean(FALSE)), m)
             [] opcode = "Not" -> op_not(w, m)
             [] opcode = "Equal" -> op_equal(w, m)
             [] opcode = "Print" -> op_print(w, m)
             [] opcode = "Pop" -> op_pop(w, m)
             [] opcode = "DefineGlobal" -> op_define_global(w, m)
             [] opcode = "GetGlobal" -> op_get_global(w, m)
             [] opcode = "SetGlobal" -> op_set_global(w, m)
             [] opcode = "GetLocal" -> op_get_local(w, m)
             [] opcode = "SetLocal" -> op_set_local(w, m)
             [] opcode = "JumpIfFalse" -> op_jump_if_false(w, m)
             [] opcode = "Jump" -> op_jump(w, m)
             [] OTHER -> op_loop(w, m)))

-----------------------------------------------------------------------------
(* The state machine: one Vm, interpret called on it again and again.      *)
(* Interpret is interpret up to the entry of run; Step is one turn of the  *)
(* loop of run.                                                            *)

\* The chunk after n statements "true;": AddTrue and Pop, n times, on line 1.
Filled(n) ==
    With(<<Op("AddTrue"), Op("Pop")>>, LAMBDA pair :
      [code |-> [i \in 1..(2 * n) |-> pair[2 - (i % 2)]],
       lines |-> [i \in 1..(2 * n) |-> 1],
       constants |-> <<>>])

\* The compiler's context after n statements "true;", with what its callers
\* hold: pending are the offsets emit_jump returned and that are not patched
\* yet, marks the loop_start values taken and not yet looped to.  history:
\* at is the place in the chunk, jumps and loops what was patched and emitted.
Emitter(n) ==
    [ctx |-> [CompilerCtx_new(<<>>, Heap_new, <<>>) EXCEPT !.chunk = Filled(n)],
     pending |-> <<>>, marks |-> <<>>, jumps |-> <<>>, loops |-> <<>>,
     operands |-> <<>>, before |-> -1,
     emits |-> 0, ended |-> FALSE]

Without(seq, i) == SubSeq(seq, 1, i - 1) \o SubSeq(seq, i + 1, Len(seq))

VmIds == 1..MaxVms

\* heap() and strings() of vm.rs as the process starts: the list of the
\* objects and the interner, both empty.  history: freed are the addresses
\* whose box was dropped, in order; vms tells which Vm is made or dropped and
\* the handles it holds.
Statics_new ==
    [heap |-> Heap_new, freed |-> <<>>,
     vms |-> [id \in VmIds |-> [state |-> "none", stack |-> <<>>]]]

Reversed(seq) == [i \in 1..Len(seq) |-> seq[Len(seq) + 1 - i]]

\* Vm::free_objects: the list is popped from the back and every box dropped.
free_objects(st) ==
    [st EXCEPT !.freed = @ \o Reversed(st.heap.objects), !.heap.objects = <<>>]

Init ==
    /\ vm = Vm_new
    /\ mem = <<>>
    /\ HEAP = Heap_new
    /\ status = "new"
    /\ returned = NoResult
    /\ out = <<>>
    /\ source = <<>>
    /\ clog = <<>>
    /\ calls = 0
    /\ steps = 0
    /\ trace = <<>>
    /\ emitter = Emitter(0)
    /\ statics = Statics_new
    /\ table = Table_new
    /\ dis = Disassembler_new

\* interpret returned (or was never called) and the process lives.
Idle == status \in {"new", "ok", "compile_error", "runtime_error"}

\* interpret after compile returned c: the chunk is loaded, or the error returned.
Load(items, c) ==
    /\ HEAP' = c.heap
    /\ mem' = c.mem
    /\ clog' = c.log
    /\ IF Panicked(c)
       THEN /\ status' = "panic"
            /\ returned' = [NoResult EXCEPT !.kind = "Panic", !.msg = c.res.msg]
            /\ vm' = vm
       ELSE IF Failed(c)
       THEN /\ status' = "compile_error"
            /\ returned' = CompileError(c.res)
            /\ vm' = vm
       ELSE /\ status' = "running"
            /\ returned' = NoResult
            /\ vm' = [vm EXCEPT !.chunk = c.chunk, !.ip = 0]
    /\ source' = items
    /\ calls' = calls + 1
    /\ steps' = 0
    /\ UNCHANGED <<out, trace>>

\* interpret called with fewer than limit calls made before.
Call(items, limit) ==
    /\ Idle
    /\ calls < limit
    /\ Load(items, compile(items, HEAP, mem))
    /\ UNCHANGED <<emitter, statics, table, dis>>

Interpret(items) == Call(items, MaxCalls)

\* The instructions the history keeps.
Traced == {"Add", "Equal", "DefineGlobal", "GetGlobal", "SetGlobal"}

\* The turn of the loop with outcome o, and its entry in the history.
Turn(o) ==
    /\ vm' = o.vm
    /\ mem' = o.mem
    /\ status' = o.status
    /\ returned' = o.returned
    /\ out' = out \o o.printed
    /\ trace' = IF OpAt(vm) \in Traced
                THEN Append(trace, [op |-> OpAt(vm),
                                    name |-> IF OpAt(vm) \in {"Add", "Equal"} THEN <<>>
                                             ELSE NameOperand([vm EXCEPT !.ip = @ + 1], mem),
                                    before |-> vm.stack, after |-> o.vm.stack,
                                    gbefore |-> vm.globals, gafter |-> o.vm.globals,
                                    status |-> o.status, returned |-> o.returned])
                ELSE trace
    /\ steps' = steps + 1
    /\ UNCHANGED <<HEAP, source, clog, calls>>

Step ==
    /\ status = "running"
    /\ steps < MaxSteps
    /\ Turn(run_step(vm, mem))
    /\ UNCHANGED <<emitter, statics, table, dis>>

-----------------------------------------------------------------------------
(* Sources.  A source is the sequence of its lexemes.                      *)

Chars(kind) ==
    CASE kind = "LeftBrace" -> <<"{">>
      [] kind = "RightBrace" -> <<"}">>
      [] kind = "LeftParen" -> <<"(">>
      [] kind = "RightParen" -> <<")">>
      [] kind = "Semicolon" -> <<";">>
      [] kind = "Equal" -> <<"=">>
      [] kind = "EqualEqual" -> <<"=", "=">>
      [] kind = "Plus" -> <<"+">>
      [] kind = "Minus" -> <<"-">>
      [] kind = "Star" -> <<"*">>
      [] kind = "Slash" -> <<"/">>
      [] kind = "BangEqual" -> <<"!", "=">>
      [] kind = "Less" -> <<"<">>
      [] kind = "LessEqual" -> <<"<", "=">>
      [] kind = "Greater" -> <<">">>
      [] kind = "GreaterEqual" -> <<">", "=">>
      [] kind = "Var" -> <<"v", "a", "r">>
      [] kind = "Print" -> <<"p", "r", "i", "n", "t">>
      [] kind = "If" -> <<"i", "f">>
      [] kind = "Else" -> <<"e", "l", "s", "e">>
      [] kind = "While" -> <<"w", "h", "i", "l", "e">>
      [] kind = "And" -> <<"a", "n", "d">>
      [] kind = "Or" -> <<"o", "r">>
      [] kind = "True" -> <<"t", "r", "u", "e">>
      [] kind = "False" -> <<"f", "a", "l", "s", "e">>
      [] kind = "Nil" -> <<"n", "i", "l">>
      [] OTHER -> <<"\n">>

Tok(kind) == Item(kind, Chars(kind))

RECURSIVE Toks(_)
Toks(kinds) == IF kinds = <<>> THEN <<>> ELSE <<Tok(kinds[1])>> \o Toks(Tail(kinds))

Ident(name) == Item("Identifier", name)

Num(digits) == Item("Number", digits)

Str(chars) == Item("String", <<"\"">> \o chars \o <<"\"">>)

\* var NAME = VALUE ;
VarStmt(name, value) ==
    <<Tok("Var"), Ident(name), Tok("Equal"), value, Tok("Semicolon")>>

\* print NAME ;
PrintVar(name) == <<Tok("Print"), Ident(name), Tok("Semicolon")>>

\* NAME = VALUE ;
AssignStmt(name, value) == <<Ident(name), Tok("Equal"), value, Tok("Semicolon")>>

Block(body) == <<Tok("LeftBrace")>> \o body \o <<Tok("RightBrace")>>

One == Num(<<"1">>)

Two == Num(<<"2">>)

\* { var a = 1; { var a = 2; print a; } print a; }
Shadowing ==
    Block(VarStmt(<<"a">>, One) \o Block(VarStmt(<<"a">>, Two) \o PrintVar(<<"a">>))
          \o PrintVar(<<"a">>))

\* { var a = 1; } { var b = 2; print b; }
TwoBlocks ==
    Block(VarStmt(<<"a">>, One)) \o Block(VarStmt(<<"b">>, Two) \o PrintVar(<<"b">>))

\* { var a = 1; { var b = 2; var b = 1; } }
Redeclared ==
    Block(VarStmt(<<"a">>, One) \o Block(VarStmt(<<"b">>, Two) \o VarStmt(<<"b">>, One)))

\* { var a = 1; { var a = a; } }
OwnInitializer ==
    Block(VarStmt(<<"a">>, One) \o Block(VarStmt(<<"a">>, Ident(<<"a">>))))

\* ) + 1;
StrayParen == <<Tok("RightParen"), Tok("Plus"), One, Tok("Semicolon")>>

\* print 1 + 2;
PrintSum == <<Tok("Print"), One, Tok("Plus"), Two, Tok("Semicolon")>>

\* print "a" + "b" == "ab";
ConcatEqual ==
    <<Tok("Print"), Str(<<"a">>), Tok("Plus"), Str(<<"b">>), Tok("EqualEqual"),
      Str(<<"a", "b">>), Tok("Semicolon")>>

\* if (true and false) print 1; else print 2;
\* if (false or true) print 1;
Branches ==
    Toks(<<"If", "LeftParen", "True", "And", "False", "RightParen", "Print">>)
    \o <<One, Tok("Semicolon"), Tok("Newline"), Tok("Else"), Tok("Print"), Two, Tok("Semicolon"),
         Tok("Newline")>>
    \o Toks(<<"If", "LeftParen", "False", "Or", "True", "RightParen", "Print">>)
    \o <<One, Tok("Semicolon")>>

\* var i = 1;
\* while (i < 2) i = i + 1;
Counting ==
    VarStmt(<<"i">>, One)
    \o <<Tok("Newline"), Tok("While"), Tok("LeftParen"), Ident(<<"i">>), Tok("Less"), Two,
         Tok("RightParen"), Ident(<<"i">>), Tok("Equal"), Ident(<<"i">>), Tok("Plus"), One,
         Tok("Semicolon")>>

\* while (true) { }
Forever == Toks(<<"While", "LeftParen", "True", "RightParen", "LeftBrace", "RightBrace">>)

Programs ==
    {Shadowing, TwoBlocks, Redeclared, OwnInitializer, StrayParen, PrintSum, ConcatEqual,
     Branches, Counting, Forever}

Next == (\E items \in Programs : Interpret(items)) \/ Step

Spec == Init /\ [][Next]_vars

\* Sources over the globals x, y and z.
GlobalPrograms ==
    {AssignStmt(<<"x">>, One),
     VarStmt(<<"x">>, Two) \o PrintVar(<<"x">>),
     VarStmt(<<"x">>, One) \o AssignStmt(<<"y">>, Two),
     AssignStmt(<<"y">>, One),
     PrintVar(<<"x">>),
     VarStmt(<<"z">>, One) \o PrintVar(<<"y">>),
     VarStmt(<<"y">>, One) \o AssignStmt(<<"y">>, Two) \o PrintVar(<<"y">>)}

NextGlobals == (\E items \in GlobalPrograms : Interpret(items)) \/ Step

SpecGlobals == Init /\ [][NextGlobals]_vars

\* print L + R; for every pair of these literals.
Literals == {One, Two, Str(<<"a">>), Str(<<"b">>), Tok("Nil")}

AddPrograms ==
    {<<Tok("Print"), l, Tok("Plus"), r, Tok("Semicolon")>> : l \in Literals, r \in Literals}

NextAdd == (\E items \in AddPrograms : Call(items, MaxAddCalls)) \/ Step

SpecAdd == Init /\ [][NextAdd]_vars

\* print x
\* ;
AcrossLines == <<Tok("Print"), Ident(<<"x">>), Tok("Newline"), Tok("Semicolon")>>

\* The empty source.
Empty == <<>>

\* true and ; ;
AndNothing == Toks(<<"True", "And", "Semicolon", "Semicolon">>)

\* x = ;
AssignNothing == <<Ident(<<"x">>), Tok("Equal"), Tok("Semicolon")>>

\* 2 + 2 = 1;
InvalidTarget == <<Two, Tok("Plus"), Two, Tok("Equal"), One, Tok("Semicolon")>>

\* x = 2 + 2 = 1;
NestedInvalidTarget == <<Ident(<<"x">>), Tok("Equal")>> \o InvalidTarget

\* x = 1;
Assignment == AssignStmt(<<"x">>, One)

\* "a          (the string is not closed)
Unterminated == <<Item("Unterminated", <<"\"", "a">>)>>

\* print 1;
\* print "a
PrintUnterminated ==
    <<Tok("Print"), One, Tok("Semicolon"), Tok("Newline"), Tok("Print")>> \o Unterminated

\* // c
\* print 1;
Commented ==
    <<Item("Comment", <<"/", "/", "c">>), Tok("Newline"), Tok("Print"), One, Tok("Semicolon")>>

\* @
UnknownChar == <<Item("Unknown", <<"@">>)>>

\* Sources that end in errors, and sources that end well beside them.
ErrorPrograms ==
    {AcrossLines, Empty, PrintSum, StrayParen, AndNothing, AssignNothing, InvalidTarget,
     NestedInvalidTarget, Assignment, Unterminated, PrintUnterminated, Commented, UnknownChar}

NextErrors == (\E items \in ErrorPrograms : Call(items, MaxErrorCalls)) \/ Step

SpecErrors == Init /\ [][NextErrors]_vars

\* impl Drop for Vm, once interpret has returned.
Drop ==
    /\ Idle
    /\ status' = "dropped"
    /\ statics' = free_objects(statics)
    /\ UNCHANGED <<vm, mem, HEAP, returned, out, source, clog, calls, steps, trace, emitter, table, dis>>

\* impl Drop for Heap, when the compiler's Heap goes after the Vm: the
\* handles are popped from the back and the box of each is dropped.
HeapDrop ==
    /\ status = "dropped"
    /\ status' = "exited"
    /\ statics' = [statics EXCEPT !.freed = @ \o Reversed(HEAP.objects)]
    /\ HEAP' = [HEAP EXCEPT !.objects = <<>>]
    /\ UNCHANGED <<vm, mem, returned, out, source, clog, calls, steps, trace, emitter, table, dis>>

\* Sources that allocate: literals, names and a concatenation.
DropPrograms == {ConcatEqual, PrintSum, Assignment, Empty}

NextDrop ==
    \/ \E items \in DropPrograms : Call(items, MaxErrorCalls)
    \/ Step
    \/ Drop
    \/ HeapDrop

SpecDrop == Init /\ [][NextDrop]_vars

\* The statics go on to st and the boxes to m; the rest of the process stands.
Shared(st, m) ==
    /\ statics' = st
    /\ mem' = m
    /\ UNCHANGED <<vm, HEAP, status, returned, out, source, clog, calls, steps, trace, emitter, table, dis>>

\* Vm::new, on any thread.
VmNew(id) ==
    /\ statics.vms[id].state = "none"
    /\ Shared([statics EXCEPT !.vms[id].state = "live"], mem)

\* A live Vm takes a string from the interner, Object::allocate_string, under
\* the locks of strings() and heap(), and keeps the handle on its stack.
VmIntern(id, content) ==
    /\ statics.vms[id].state = "live"
    /\ Len(statics.vms[id].stack) < MaxInterned
    /\ With(Object_allocate_string(statics.heap, mem, content), LAMBDA a :
         Shared([statics EXCEPT !.heap = a.heap, !.vms[id].stack = Append(@, a.handle)],
                a.mem))

\* impl Drop for Vm, on any thread: free_objects under the lock of heap().
VmDrop(id) ==
    /\ statics.vms[id].state = "live"
    /\ Shared([free_objects(statics) EXCEPT !.vms[id].state = "dropped"], mem)

NextVms ==
    \E id \in VmIds :
       \/ VmNew(id)
       \/ \E content \in {<<"a">>, <<"b">>} : VmIntern(id, content)
       \/ VmDrop(id)

SpecVms == Init /\ [][NextVms]_vars

program == <<vm, mem, HEAP, status, returned, out, source, clog, calls, steps, trace>>

\* The emitter goes on to e, by a call that grows the chunk by grown calls.
Emit(e, grown) ==
    /\ ~emitter.ended
    /\ emitter.emits + grown <= MaxEmits
    /\ emitter' = [e EXCEPT !.emits = @ + grown]
    /\ UNCHANGED <<program, statics, table, dis>>

\* let then_jump = emit_jump(ctx, jump_op);
EmitJump(jump_op) ==
    With(emit_jump(emitter.ctx, jump_op), LAMBDA e :
      Emit([emitter EXCEPT !.ctx = e,
                           !.pending = Append(@, [offset |-> e.ret,
                                                  at |-> Len(e.chunk.code) - 2])], 1))

\* An instruction of the code the jump goes over.
EmitBody == Emit([emitter EXCEPT !.ctx = emit_byte(@, Op("Pop"))], 1)

\* patch_jump(ctx, then_jump); the next instruction goes where the chunk ends now.
PatchJump(i) ==
    Emit([emitter EXCEPT !.ctx = patch_jump(@, emitter.pending[i].offset),
                         !.pending = Without(@, i),
                         !.jumps = Append(@, [at |-> emitter.pending[i].at,
                                              target |-> Len(emitter.ctx.chunk.code)])], 0)

\* let loop_start = ctx.chunk.code().len() as u16;
MarkLoop ==
    Emit([emitter EXCEPT !.marks = Append(@, [loop_start |-> Len(emitter.ctx.chunk.code) % 65536,
                                              at |-> Len(emitter.ctx.chunk.code)])], 1)

\* emit_loop(ctx, loop_start);
EmitLoop(i) ==
    With(emit_loop(emitter.ctx, emitter.marks[i].loop_start), LAMBDA e :
      Emit([emitter EXCEPT !.ctx = e,
                           !.marks = Without(@, i),
                           !.loops = Append(@, [at |-> Len(e.chunk.code) - 2,
                                                start |-> emitter.marks[i].at])], 0))

\* end(ctx), once every jump is patched and every loop closed.
EmitEnd ==
    /\ emitter.pending = <<>>
    /\ emitter.marks = <<>>
    /\ Emit([emitter EXCEPT !.ctx = end(@), !.ended = TRUE], 0)

InitJumps ==
    /\ vm = Vm_new
    /\ mem = <<>>
    /\ HEAP = Heap_new
    /\ status = "new"
    /\ returned = NoResult
    /\ out = <<>>
    /\ source = <<>>
    /\ clog = <<>>
    /\ calls = 0
    /\ steps = 0
    /\ trace = <<>>
    /\ statics = Statics_new
    /\ table = Table_new
    /\ dis = Disassembler_new
    /\ emitter \in {Emitter(n) : n \in {0, LongProgram}}

NextJumps ==
    \/ \E jump_op \in {"JumpIfFalse", "Jump"} : EmitJump(jump_op)
    \/ EmitBody
    \/ \E i \in 1..Len(emitter.pending) : PatchJump(i)
    \/ MarkLoop
    \/ \E i \in 1..Len(emitter.marks) : EmitLoop(i)
    \/ EmitEnd

SpecJumps == InitJumps /\ [][NextJumps]_vars

\* The decimal digits of k.
RECURSIVE DigitsOf(_)
DigitsOf(k) ==
    IF k < 10 THEN <<Digits[k + 1]>> ELSE Append(DigitsOf(k \div 10), Digits[(k % 10) + 1])

\* The chunk after the n statements "1; 2; ... n;": AddConstant with the
\* index of its constant, and Pop, n times, on line 1.
NumberStatements(n) ==
    With(<<Op("AddConstant"), Op("Pop")>>, LAMBDA pair :
      [code |-> [i \in 1..(3 * n) |->
                   CASE i % 3 = 1 -> pair[1]
                     [] i % 3 = 2 -> (i - 2) \div 3
                     [] OTHER -> pair[2]],
       lines |-> [i \in 1..(3 * n) |-> 1],
       constants |-> [i \in 1..n |-> Number(i)]])

\* The i-th local of the block: the token of the name a<i>.
LocalName(i) == Token_new("Identifier", 1, 8 * i, <<"a">> \o DigitsOf(i))

\* The compiler's context inside a block, after n number statements and the
\* declarations of m locals.
Limited(n, m) ==
    [Emitter(0) EXCEPT !.ctx.chunk = NumberStatements(n),
                       !.ctx.scope_depth = 1,
                       !.ctx.local_count = m,
                       !.ctx.locals = [i \in 1..m |-> Local_new(LocalName(i), 1)]]

\* number() and the Pop of expression_statement.  history: operands keeps the
\* place of the operand and the index add_constant gave the constant.
EmitNumber(value) ==
    With(emit_constant(emitter.ctx, Number(value)), LAMBDA e :
      Emit([emitter EXCEPT !.ctx = emit_byte(e, Op("Pop")),
                           !.operands = Append(@, [at |-> Len(e.chunk.code),
                                                   index |-> Len(emitter.ctx.chunk.constants)])],
           1))

\* add_local(ctx, name).  history: before is local_count as the call found it.
AddLocal ==
    Emit([emitter EXCEPT !.ctx = add_local(@, LocalName(emitter.ctx.local_count + 1)),
                         !.before = emitter.ctx.local_count], 1)

InitLimits ==
    /\ vm = Vm_new
    /\ mem = <<>>
    /\ HEAP = Heap_new
    /\ status = "new"
    /\ returned = NoResult
    /\ out = <<>>
    /\ source = <<>>
    /\ clog = <<>>
    /\ calls = 0
    /\ steps = 0
    /\ trace = <<>>
    /\ statics = Statics_new
    /\ table = Table_new
    /\ dis = Disassembler_new
    /\ emitter \in {Limited(n, m) : n \in {0, ByteValues - 1}, m \in {0, ByteValues - 1}}

NextLimits ==
    \/ \E value \in {1, 2} : EmitNumber(value)
    \/ AddLocal
    \/ EmitEnd

SpecLimits == InitLimits /\ [][NextLimits]_vars

\* The operands of an expression of n operators: 1 2 3 ..., or the same
\* from the right, or 2 2 2 ...
OperandRows(n) ==
    {[i \in 1..(n + 1) |-> Num(DigitsOf(i))],
     [i \in 1..(n + 1) |-> Num(DigitsOf(n + 2 - i))],
     [i \in 1..(n + 1) |-> Two]}

Operators ==
    {"Plus", "Minus", "Star", "Slash", "Less", "LessEqual", "Greater", "GreaterEqual",
     "EqualEqual", "BangEqual"}

\* OPERAND OPERATOR OPERAND ... OPERAND ;
Expression(operands, operators) ==
    [i \in 1..(2 * Len(operands)) |->
       IF i = 2 * Len(operands) THEN Tok("Semicolon")
       ELSE IF i % 2 = 1 THEN operands[(i + 1) \div 2]
       ELSE Tok(operators[i \div 2])]

\* The expression statements of up to MaxOperators operators.
Expressions ==
    UNION {{Expression(operands, operators) :
              operands \in OperandRows(n), operators \in [1..n -> Operators]} :
           n \in 1..MaxOperators}

\* Every expression is interpreted by a Vm of its own.
NextExpressions == (\E items \in Expressions : Call(items, 1)) \/ Step

SpecExpressions == Init /\ [][NextExpressions]_vars

\* An operand that cannot be evaluated: - nil is a runtime error.
Unevaluable == <<Tok("Minus"), Tok("Nil")>>

LeftOperands == {<<Tok("Nil")>>, <<Tok("False")>>, <<Tok("True")>>, <<One>>}

RightOperands == LeftOperands \cup {<<Two>>, Unevaluable}

\* print LEFT OPERATOR RIGHT ;
Logical(left, operator, right) ==
    <<Tok("Print")>> \o left \o <<Tok(operator)>> \o right \o <<Tok("Semicolon")>>

Logicals ==
    {Logical(left, operator, right) :
       left \in LeftOperands, operator \in {"And", "Or"}, right \in RightOperands}

\* Every logical expression is interpreted by a Vm of its own.
NextLogicals == (\E items \in Logicals : Call(items, 1)) \/ Step

SpecLogicals == Init /\ [][NextLogicals]_vars

\* One turn of the loop of disassemble over the chunk interpret compiled.
Disassemble ==
    /\ status # "new"
    /\ dis.state = "ready"
    /\ dis.offset < Len(vm.chunk.code)
    /\ dis' = disassemble_current_instruction(dis, vm.chunk)
    /\ UNCHANGED <<program, emitter, statics, table>>

DisassembledPrograms == {PrintSum, ConcatEqual, Shadowing, Assignment} \cup Logicals

NextDisassembler == (\E items \in DisassembledPrograms : Call(items, 1)) \/ Disassemble

SpecDisassembler == Init /\ [][NextDisassembler]_vars

\* map.set(key, value) on the HashMap.
Set(key, value) ==
    /\ ~table.hung
    /\ With(set(table.map, key, value), LAMBDA r :
         table' = IF r.hung THEN [table EXCEPT !.hung = TRUE]
                  ELSE [table EXCEPT !.map = r.map, !.kept[key] = Some(value),
                                     !.got = Table_new.got])
    /\ UNCHANGED <<program, emitter, statics, dis>>

\* map.get(key) on the HashMap.
Get(key) ==
    /\ ~table.hung
    /\ With(get(table.map, key), LAMBDA r :
         table' = IF r.hung THEN [table EXCEPT !.hung = TRUE]
                  ELSE [table EXCEPT !.got = [key |-> key, ret |-> r]])
    /\ UNCHANGED <<program, emitter, statics, dis>>

\* map.delete(key) on the HashMap.
Delete(key) ==
    /\ ~table.hung
    /\ With(delete(table.map, key), LAMBDA r :
         table' = IF r.hung THEN [table EXCEPT !.hung = TRUE]
                  ELSE [table EXCEPT !.map = r.map, !.kept[key] = None,
                                     !.got = Table_new.got])
    /\ UNCHANGED <<program, emitter, statics, dis>>

NextTable ==
    \/ \E key \in Driven, value \in Values : Set(key, value)
    \/ \E key \in Driven : Get(key)
    \/ \E key \in Driven : Delete(key)

\* The HashMap has lived before: some of its keys were set, or set and deleted.
InitTable ==
    /\ vm = Vm_new
    /\ mem = <<>>
    /\ HEAP = Heap_new
    /\ status = "new"
    /\ returned = NoResult
    /\ out = <<>>
    /\ source = <<>>
    /\ clog = <<>>
    /\ calls = 0
    /\ steps = 0
    /\ trace = <<>>
    /\ emitter = Emitter(0)
    /\ statics = Statics_new
    /\ dis = Disassembler_new
    /\ table \in {[Table_new EXCEPT !.map = Worn(n)] : n \in 0..MaxKeys}
               \cup {[Table_new EXCEPT
                       !.map = Stored(n),
                       !.kept = [key \in Keys |->
                                   IF \E i \in 1..n : key = <<Alphabet[i]>>
                                   THEN Some(Number(1)) ELSE None]] : n \in 1..MaxKeys}

SpecTable == InitTable /\ [][NextTable]_vars

-----------------------------------------------------------------------------
(* The claims.                                                             *)

Events == {clog[i] : i \in 1..Len(clog)}

\* The locals of e.live called name that are initialized.
LiveNamed(e, name) == {i \in 1..Len(e.live) : e.live[i].name = name /\ e.live[i].init}

Max(S) == CHOOSE x \in S : \A y \in S : y <= x

\* The two values printed last.
LastPrinted == SubSeq(out, Len(out) - 1, Len(out))

\* C1: a read of a name resolves to the slot of the innermost live local of
\* that name, so inside an inner block that redeclares an outer name it reads
\* the inner local and after the block the outer one; the shadowing program
\* prints 2 and then 1.
ShadowingResolvesInnermost ==
    /\ \A e \in Events :
          (e.ev = "resolve" /\ LiveNamed(e, e.name) # {}
             /\ \A i \in 1..Len(e.live) : e.live[i].name = e.name => e.live[i].init)
          => (e.res.kind = "Ok" /\ e.arg = Max(LiveNamed(e, e.name)) - 1)
    /\ (source = Shadowing /\ status # "running")
          => (status = "ok" /\ Len(out) >= 2 /\ LastPrinted = <<Number(2), Number(1)>>)

\* C2: at every point of the compilation locals[i], for i < local_count, is
\* the i-th live local with its own name and depth, so a local of a block that
\* follows a closed block resolves to its own slot; the two-blocks program
\* prints 2.
LocalsAreTheLiveLocals ==
    /\ \A e \in Events :
          /\ e.local_count = Len(e.live)
          /\ \A i \in 1..Len(e.live) :
                /\ e.locals[i].name.lexeme = e.live[i].name
                /\ e.locals[i].depth = (IF e.live[i].init THEN e.live[i].depth ELSE -1)
    /\ (source = TwoBlocks /\ status # "running")
          => (status = "ok" /\ Len(out) >= 1 /\ Last(out) = Number(2))

\* C5: in a block, var x = e; fails with "already a variable with this name in
\* this scope." exactly when x is already declared in the same innermost
\* scope, whatever the depth and whatever the enclosing scopes hold.
RedeclarationIsRejected ==
    \A e \in Events :
       e.ev = "declare"
       => ((e.res.kind = "Err"
            /\ e.res.msg = "already a variable with this name in this scope.") <=> e.dup)

\* C6: a block-scoped var x = e; whose initializer reads x fails with "can't
\* read local variable in its own initializer.", whether or not an enclosing
\* scope or an earlier block declared x.
OwnInitializerIsRejected ==
    \A e \in Events :
       (e.ev = "resolve"
          /\ \E i \in 1..Len(e.live) : e.live[i].name = e.name /\ ~e.live[i].init)
       => (e.res.kind = "Err"
           /\ e.res.msg = "can't read local variable in its own initializer.")

\* C7: while a compiled program runs, at every statement boundary the stack
\* holds exactly the values of the live locals (none at top level).
StackHoldsTheLiveLocals ==
    status = "running"
    => \A e \in Events :
          (e.ev = "stmt" /\ e.arg = vm.ip) => Len(vm.stack) = Len(e.live)

\* The name was defined by a DefineGlobal before the i-th entry of the history.
DefinedBefore(i, name) ==
    \E j \in 1..(i - 1) :
       trace[j].op = "DefineGlobal" /\ trace[j].name = name /\ trace[j].before # <<>>

\* The entries before the i-th that wrote the global: its definitions, and
\* the assignments made while it was defined.
Writes(i, name) ==
    {j \in 1..(i - 1) :
       /\ trace[j].name = name
       /\ trace[j].before # <<>>
       /\ \/ trace[j].op = "DefineGlobal"
          \/ (trace[j].op = "SetGlobal" /\ DefinedBefore(j, name))}

UndefinedVariable(e) ==
    /\ e.status = "runtime_error"
    /\ e.returned.kind = "Runtime"
    /\ e.returned.msg = "undefined variable"
    /\ e.returned.name = e.name

\* C3: over any sequence of interpret calls on one Vm, GetGlobal of a defined
\* name pushes the value defined or assigned last, and it reports
\* "undefined variable 'NAME'." only for a name that is not defined.
GetGlobalReadsTheLatestValue ==
    \A i \in 1..Len(trace) :
       trace[i].op = "GetGlobal"
       => IF DefinedBefore(i, trace[i].name)
          THEN /\ trace[i].status = "running"
               /\ trace[i].after
                    = Append(trace[i].before, Last(trace[Max(Writes(i, trace[i].name))].before))
          ELSE UndefinedVariable(trace[i])

\* The names the history mentions.
GlobalNames == {trace[i].name : i \in 1..Len(trace)}

\* C4: SetGlobal on a name that is not defined returns "undefined variable
\* 'NAME'." and defines nothing: a later GetGlobal of the name still fails and
\* every other global keeps its value.
FailedSetGlobalDefinesNothing ==
    \A i \in 1..Len(trace) :
       (trace[i].op = "SetGlobal" /\ trace[i].before # <<>>
          /\ ~DefinedBefore(i, trace[i].name))
       => /\ UndefinedVariable(trace[i])
          /\ \A name \in GlobalNames \ {trace[i].name} :
                get(trace[i].gafter, name) = get(trace[i].gbefore, name)
          /\ \A j \in (i + 1)..Len(trace) :
                (trace[j].op = "GetGlobal" /\ trace[j].name = trace[i].name
                   /\ ~DefinedBefore(j, trace[i].name))
                => UndefinedVariable(trace[j])

\* The handle the interner keeps for the content of the string value v.
Interned(v) == get(HEAP.strings, mem[v.n]).value

\* C8: the string an Add produces is the interned handle of its content, and
\* Equal of two strings with the same content is true; "a" + "b" == "ab"
\* prints true.
ConcatenationIsInterned ==
    /\ \A i \in 1..Len(trace) :
          /\ (trace[i].op = "Add" /\ trace[i].status = "running"
                /\ is_string(Last(trace[i].after)))
             => Last(trace[i].after) = Interned(Last(trace[i].after))
          /\ (trace[i].op = "Equal" /\ Len(trace[i].before) >= 2
                /\ is_string(trace[i].before[Len(trace[i].before) - 1])
                /\ is_string(Last(trace[i].before))
                /\ mem[trace[i].before[Len(trace[i].before) - 1].n]
                     = mem[Last(trace[i].before).n])
             => Last(trace[i].after) = Boolean(TRUE)
    /\ (source = ConcatEqual /\ status = "ok") => Last(out) = Boolean(TRUE)

\* The string constants of the loaded chunk.
StringConstants == {i \in 1..Len(vm.chunk.constants) : is_string(vm.chunk.constants[i])}

\* C9: the heap holds at most one string object per content, and
\* allocate_string gives the same handle for the same content.
OneObjectPerContent ==
    /\ \A i, j \in 1..Len(HEAP.objects) :
          mem[HEAP.objects[i]] = mem[HEAP.objects[j]] => i = j
    /\ \A i, j \in StringConstants :
          mem[vm.chunk.constants[i].n] = mem[vm.chunk.constants[j].n]
          => vm.chunk.constants[i] = vm.chunk.constants[j]

\* The operands of the entry e of the history: the two values on top.
LeftOperand(e) == e.before[Len(e.before) - 1]

RightOperand(e) == Last(e.before)

\* The stack of e under its two operands.
Below(e) == SubSeq(e.before, 1, Len(e.before) - 2)

\* The Add entries of the history made with two operands on the stack.
Adds == {i \in 1..Len(trace) : trace[i].op = "Add" /\ Len(trace[i].before) >= 2}

BothNumbers(e) == is_number(LeftOperand(e)) /\ is_number(RightOperand(e))

BothStrings(e) == is_string(LeftOperand(e)) /\ is_string(RightOperand(e))

\* C10: Add pops its two operands; two Numbers give their sum, two Strings
\* their concatenation with the left operand first, and any other pair pushes
\* nothing and makes interpret return the RuntimeError "operands must be two
\* numbers of two strings.".
AddSumsConcatenatesOrFails ==
    \A i \in Adds :
       CASE BothNumbers(trace[i]) ->
              /\ trace[i].status = "running"
              /\ trace[i].after
                   = Append(Below(trace[i]),
                            NumAdd(LeftOperand(trace[i]), RightOperand(trace[i])))
         [] BothStrings(trace[i]) ->
              /\ trace[i].status = "running"
              /\ Len(trace[i].after) = Len(trace[i].before) - 1
              /\ Front(trace[i].after) = Below(trace[i])
              /\ is_string(Last(trace[i].after))
              /\ mem[Last(trace[i].after).n]
                   = mem[LeftOperand(trace[i]).n] \o mem[RightOperand(trace[i]).n]
         [] OTHER ->
              /\ trace[i].status = "runtime_error"
              /\ trace[i].returned.kind = "Runtime"
              /\ trace[i].returned.msg = "operands must be two numbers of two strings."
              /\ Len(trace[i].after) <= Len(Below(trace[i]))
              /\ trace[i].after = SubSeq(trace[i].before, 1, Len(trace[i].after))

\* Two different strings were concatenated and a pair of other kinds was
\* refused, in one history.
AddCasesHappened ==
    /\ \E i \in Adds :
          /\ BothStrings(trace[i])
          /\ mem[LeftOperand(trace[i]).n] # mem[RightOperand(trace[i]).n]
          /\ trace[i].status = "running"
    /\ \E i \in Adds : ~BothNumbers(trace[i]) /\ ~BothStrings(trace[i])
                        /\ trace[i].status = "runtime_error"

\* C11: whenever interpret returns a RuntimeError the operand stack is empty,
\* on every error path of the VM, so the next call starts from an empty stack.
StackEmptyOnRuntimeError == status = "runtime_error" => vm.stack = <<>>

\* C12: the line of a RuntimeError is chunk.lines[ip - 1] for the ip at which
\* the error was raised: the line of the last byte read.
LineOfTheLastByteRead ==
    status = "runtime_error" => returned.line = vm.chunk.lines[vm.ip]

\* C13: interpret returns the value popped last, and Nil when the call popped
\* nothing (its first instruction was Return), whatever earlier calls popped.
ReturnsLastPoppedOfTheCall ==
    status = "ok"
    => /\ returned.value = vm.last
       /\ steps = 1 => returned.value = Nil

\* The errors the compiler raised in the last compilation, in source order.
Errors == SelectSeq(clog, LAMBDA e : e.ev = "error")

\* interpret returned the CompilerError e.
ReturnedCompileError(e) ==
    /\ status = "compile_error"
    /\ returned.kind = "Compile"
    /\ returned.msg = e.msg
    /\ returned.line = e.line

\* C14: when the token at which an expression must start has no prefix rule,
\* compile returns "expect expression.", whatever tokens follow.
MissingPrefixIsReported ==
    (Errors # <<>> /\ Errors[1].res.msg = "expect expression.")
    => (status = "compile_error" /\ returned.msg = "expect expression.")

\* C15: when a parse rule reports an error, compile returns the first error
\* reported, in source order.
FirstErrorIsReturned == Errors # <<>> => ReturnedCompileError(Errors[1].res)

\* C16: a scanner error on any token of the source makes compile return the
\* scanner's message and line.
ScannerErrorIsLifted ==
    \A i \in 1..Len(Errors) :
       Errors[i].res.msg = "unterminated string literal"
       => ReturnedCompileError(Errors[i].res)

\* The source without its line comments.
Uncommented(items) == SelectSeq(items, LAMBDA item : item.kind # "Comment")

HasComment(items) == \E i \in 1..Len(items) : items[i].kind = "Comment"

\* C17: line comments are skipped like whitespace: a source with comments
\* compiles to the chunk the source without them compiles to.
CommentsAreSkipped ==
    (calls > 0 /\ HasComment(source))
    => With(compile(Uncommented(source), Heap_new, <<>>), LAMBDA plain :
         ~Failed(plain)
         => /\ status \notin {"compile_error", "panic"}
            /\ vm.chunk.code = plain.chunk.code
            /\ vm.chunk.constants = plain.chunk.constants)

InvalidTargetRaised ==
    \E i \in 1..Len(Errors) : Errors[i].res.msg = "invalid assignment target."

\* The source is an assignment to a bare identifier, and it compiled.
AssignmentCompiled ==
    /\ Len(source) >= 2
    /\ source[1].kind = "Identifier"
    /\ source[2].kind = "Equal"
    /\ status = "running"

\* The chunk ends in the assignment: SetLocal or SetGlobal with its operand,
\* then the statement's Pop and the Return of end.
EndsInSet(code) ==
    /\ Len(code) >= 4
    /\ code[Len(code) - 3] \in {Op("SetLocal"), Op("SetGlobal")}
    /\ code[Len(code) - 1] = Op("Pop")
    /\ code[Len(code)] = Op("Return")

\* C18: an expression that is not a bare identifier in assignment position and
\* is followed by `=` makes compile fail with "invalid assignment target."; an
\* assignment to a bare identifier compiles to its right-hand side followed by
\* SetLocal or SetGlobal.
InvalidTargetIsRejected ==
    /\ InvalidTargetRaised
       => (status = "compile_error" /\ returned.msg = "invalid assignment target.")
    /\ AssignmentCompiled => EndsInSet(vm.chunk.code)

\* C19: interpret returns Ok or Err for every source: nothing panics in the
\* scanner, the compiler or the virtual machine.
InterpretNeverPanics == status # "panic"

\* The u16 at the place at of the code, in native (little-endian) byte order.
Operand(code, at) == code[at + 1] + 256 * code[at + 2]

\* The jump emitted at the place j.at goes to the instruction emitted right
\* after its patch.
JumpLands(code, j) ==
    /\ code[j.at] \in {Op("JumpIfFalse"), Op("Jump")}
    /\ Operand(code, j.at) \in 0..65535
    /\ j.at + 2 + Operand(code, j.at) = j.target
    /\ j.target < Len(code)

\* The Loop whose operand is at the place l.at goes back to its loop start.
LoopLands(code, l) ==
    /\ code[l.at] = Op("Loop")
    /\ l.at + 2 - Operand(code, l.at) = l.start

\* C20: in a compiled chunk the operand o of every JumpIfFalse and Jump is in
\* 0..65535 and the position after the operand plus o is the first byte of the
\* instruction emitted right after the patch, inside the chunk; for every Loop
\* the position after the operand minus o is the loop start.
JumpsLandOnInstructions ==
    emitter.ended
    => /\ \A i \in 1..Len(emitter.jumps) :
             JumpLands(emitter.ctx.chunk.code, emitter.jumps[i])
       /\ \A i \in 1..Len(emitter.loops) :
             LoopLands(emitter.ctx.chunk.code, emitter.loops[i])

\* C21: a chunk never gets a 257th constant (compile returns an error instead),
\* so the one-byte operand of an instruction is never a truncated index: it
\* designates the constant that was added for it.
ConstantOperandsDesignate ==
    /\ Len(emitter.ctx.chunk.constants) > ByteValues => Failed(emitter.ctx)
    /\ \A i \in 1..Len(emitter.operands) :
          emitter.ctx.chunk.code[emitter.operands[i].at] = emitter.operands[i].index

\* C22: local_count never exceeds 256: the declaration of a local when 256
\* are live fails with "too many variables in function."
LocalsStayAddressable ==
    /\ emitter.ctx.local_count <= ByteValues
    /\ emitter.before >= ByteValues
       => emitter.ctx.res = Err("too many variables in function.", emitter.ctx.current.line)

\* How often the address was freed.
TimesFreed(address) == Cardinality({i \in 1..Len(statics.freed) : statics.freed[i] = address})

\* C23: when the Vm is dropped, every object allocated in its lifetime - the
\* string literals, the names and the concatenations - is freed exactly once.
DropFreesEveryObjectOnce ==
    status = "dropped" => \A address \in 1..Len(mem) : TimesFreed(address) = 1

Freed == {statics.freed[i] : i \in 1..Len(statics.freed)}

\* The handles the string table holds.
Interned_handles ==
    {statics.heap.strings.entries[i].value.n :
        i \in {j \in 1..Len(statics.heap.strings.entries) :
                 statics.heap.strings.entries[j].kind = "Occupied"}}

\* The handles on the stack of a live Vm.
Reachable ==
    UNION {{statics.vms[id].stack[i] : i \in 1..Len(statics.vms[id].stack)} :
             id \in {v \in VmIds : statics.vms[v].state = "live"}}

\* C24: under every interleaving of making Vms, interpreting on them and
\* dropping them, no handle a live Vm reaches and no handle of the string
\* table points to an object that was freed.
NoHandleToAFreedObject == (Reachable \cup Interned_handles) \cap Freed = {}

\* The run of the chunk is over, and not by a runtime error: run returned Ok,
\* panicked, or left the chunk.
RunEnded == steps > 0 /\ status \in {"ok", "panic", "ub"}

\* C25: the code and the lines of a compiled chunk have the same length, also
\* after the jumps are patched, the last byte of the code is Return, and every
\* execution that raises no runtime error and does not loop forever reaches
\* that Return as an opcode.
ChunkEndsInReturn ==
    /\ vm.chunk.code # <<>>
       => /\ Len(vm.chunk.code) = Len(vm.chunk.lines)
          /\ Last(vm.chunk.code) = Op("Return")
    /\ RunEnded => (status = "ok" /\ vm.ip = Len(vm.chunk.code))

\* The operands and the operators of the expression statement.
OperandsOf(items) ==
    [i \in 1..(Len(items) \div 2) |-> Number(ParseNumber(items[2 * i - 1].text))]

OperatorsOf(items) == [i \in 1..((Len(items) \div 2) - 1) |-> items[2 * i].kind]

\* The level of the grammar that holds the operator: equality, comparison,
\* term, factor, from the loosest to the tightest.
Level(operator) ==
    CASE operator \in {"EqualEqual", "BangEqual"} -> 1
      [] operator \in {"Less", "LessEqual", "Greater", "GreaterEqual"} -> 2
      [] operator \in {"Plus", "Minus"} -> 3
      [] OTHER -> 4

\* The operator applied last: the rightmost one of the loosest level.
Root(operators) ==
    Max({i \in 1..Len(operators) :
           \A j \in 1..Len(operators) : Level(operators[i]) <= Level(operators[j])})

NoMeaning == [ok |-> FALSE, value |-> Nil]

Meant(value) == [ok |-> TRUE, value |-> value]

\* The operator on two meanings: an error when an operand is one, or when an
\* arithmetic or comparison operator gets something that is no Number.
Applied(operator, l, r) ==
    IF ~l.ok \/ ~r.ok THEN NoMeaning
    ELSE IF operator = "EqualEqual" THEN Meant(Boolean(ValueEq(l.value, r.value)))
    ELSE IF operator = "BangEqual" THEN Meant(Boolean(~ValueEq(l.value, r.value)))
    ELSE IF ~is_number(l.value) \/ ~is_number(r.value) THEN NoMeaning
    ELSE CASE operator = "Plus" -> Meant(NumAdd(l.value, r.value))
           [] operator = "Minus" -> Meant(NumSub(l.value, r.value))
           [] operator = "Star" -> Meant(NumMul(l.value, r.value))
           [] operator = "Slash" -> Meant(NumDiv(l.value, r.value))
           [] operator = "Less" -> Meant(Boolean(NumLess(l.value, r.value)))
           [] operator = "Greater" -> Meant(Boolean(NumGreater(l.value, r.value)))
           [] operator = "LessEqual" -> Meant(Boolean(~NumGreater(l.value, r.value)))
           [] OTHER -> Meant(Boolean(~NumLess(l.value, r.value)))

\* What the grammar prescribes: the tree whose root is the operator applied
\* last, over the meanings of what stands left and right of it.
RECURSIVE Meaning(_, _)
Meaning(operands, operators) ==
    IF operators = <<>> THEN Meant(operands[1])
    ELSE With(Root(operators), LAMBDA k :
           Applied(operators[k],
                   Meaning(SubSeq(operands, 1, k), SubSeq(operators, 1, k - 1)),
                   Meaning(SubSeq(operands, k + 1, Len(operands)),
                           SubSeq(operators, k + 1, Len(operators)))))

\* C26: the value of an expression over + - * / < <= > >= == != is the one
\* the grammar prescribes: tighter operators bind first, operators of one
\* level associate to the left; where that tree has no value, interpret
\* returns a runtime error.
ValueFollowsTheGrammar ==
    (source \in Expressions /\ status \notin {"new", "running"})
    => With(Meaning(OperandsOf(source), OperatorsOf(source)), LAMBDA meaning :
         IF meaning.ok
         THEN status = "ok" /\ returned.value = meaning.value
         ELSE status = "runtime_error")

\* 1 + 2 * 3 gave 7 and 3 - 2 - 1 gave 0.
PrecedenceAndAssociativityHappened ==
    /\ status = "ok"
    /\ \/ /\ source = Expression(<<One, Two, Num(<<"3">>)>>, <<"Plus", "Star">>)
          /\ returned.value = Number(7)
       \/ /\ source = Expression(<<Num(<<"3">>), Two, One>>, <<"Minus", "Minus">>)
          /\ returned.value = Number(0)

\* C27: get(k) returns the value of the latest set(k, v) that no delete(k)
\* followed and None otherwise, and len() counts the keys that have a value.
GetReturnsTheLatestSet ==
    /\ table.got.key # <<>> => table.got.ret = table.kept[table.got.key]
    /\ table.map.len = Cardinality({key \in Keys : table.kept[key].some})

\* C28: a table with slots keeps a Vacant one, and no call of set, get or
\* delete probes forever.
EveryProbeEnds ==
    /\ capacity(table.map) > 0
       => \E i \in 1..capacity(table.map) : table.map.entries[i].kind = "Vacant"
    /\ ~table.hung

\* The value a literal operand stands for.
Literal(item) ==
    CASE item.kind = "Nil" -> Nil
      [] item.kind = "False" -> Boolean(FALSE)
      [] item.kind = "True" -> Boolean(TRUE)
      [] OTHER -> Number(ParseNumber(item.text))

\* The left operand decides: a falsey one under and, a truthy one under or.
LeftDecides(items) == (items[3].kind = "And") = (Literal(items[2]) \in {Nil, Boolean(FALSE)})

RightOf(items) == SubSeq(items, 4, Len(items) - 1)

\* C29: `a and b` and `a or b` leave exactly one value, the left operand
\* where it decides (the right one is then not evaluated) and the right
\* operand otherwise.
ShortCircuitLeavesOneOperand ==
    (source \in Logicals /\ status \notin {"new", "running"})
    => IF LeftDecides(source)
       THEN status = "ok" /\ out = <<Literal(source[2])>> /\ vm.stack = <<>>
       ELSE IF RightOf(source) = Unevaluable
       THEN status = "runtime_error" /\ out = <<>>
       ELSE status = "ok" /\ out = <<Literal(source[4])>> /\ vm.stack = <<>>

\* `false and - nil` printed false and `1 or - nil` printed 1: the right
\* operand, a runtime error had it been evaluated, was skipped.
RightOperandWasSkipped ==
    /\ status = "ok"
    /\ \/ source = Logical(<<Tok("False")>>, "And", Unevaluable) /\ out = <<Boolean(FALSE)>>
       \/ source = Logical(<<One>>, "Or", Unevaluable) /\ out = <<Number(1)>>

\* The offsets at which the instructions of the Vm start, from `offset` on.
RECURSIVE Boundaries(_, _)
Boundaries(code, offset) ==
    IF offset >= Len(code) THEN <<>>
    ELSE <<offset>> \o Boundaries(code, offset + Width(OpCodes[code[offset + 1] + 1]))

\* C30: the disassembler advances by the width the Vm gives each
\* instruction: it stands on an instruction of the Vm, what it visited are
\* the instructions before it, and it read nothing behind the end.
DisassemblerKeepsTheWidths ==
    /\ dis.state = "ready" /\ ~dis.past
    /\ dis.visited = SelectSeq(Boundaries(vm.chunk.code, 0), LAMBDA offset : offset < dis.offset)
    /\ dis.offset <= Len(vm.chunk.code)
    /\ dis.offset < Len(vm.chunk.code)
       => \E i \in 1..Len(Boundaries(vm.chunk.code, 0)) :
             Boundaries(vm.chunk.code, 0)[i] = dis.offset

====
